---- MODULE Spec2Model ----
(***************************************************************************)
(* A model of the execution-control core of go-local-ci:                   *)
(*   - FallbackExecutor        (domains/error-control/fallback-executor.ts)*)
(*   - StrategyController      (domains/error-control/strategy-controller) *)
(*   - classifyExitCode        (domains/test-execution/types.ts)           *)
(*   - TestExecutor            (domains/test-execution/test-executor.ts)   *)
(*   - ParallelTestExecutor    (domains/test-execution/parallel-executor)  *)
(*   - DenoProcessExecutor     (the process executor adapter)              *)
(*   - ApplicationStateManager (domains/application-control/state-manager) *)
(*   - GoCI.executeAll/Batch   (core/go-ci.ts)                             *)
(*   - the orchestration session that ties rounds, decisions and fallback  *)
(* Each component has its own specification over its own variables; the    *)
(* variables of the other components stay at their idle values.            *)
(***************************************************************************)
EXTENDS Integers, Sequences, FiniteSets, TLC

VARIABLES
    \* ---- FallbackExecutor ----
    config,         \* this.config: [enabled, maxRetries]
    eventBus,       \* TRUE iff an EventBus was injected
    handler,        \* the handler subscribed to the bus for the fallback event
    state,          \* this.state: Null or a FallbackState record
    emitted,        \* events handed to eventBus.emit, in order
    now,            \* the value Date.now() returns
    feRet,          \* the last call and what it returned
    grants,         \* executed:true results since the last initialize
    feCalls,        \* number of calls made so far
    \* ---- classifyExitCode / StrategyController.makeDecision ----
    dOutcome,       \* the ProcessResult handed to classifyExitCode
    dCtx,           \* the caller's ErrorContext
    dConfig,        \* the FallbackConfig handed to makeDecision
    dClass,         \* the ExitCodeClassification (Null before classifying)
    dDecision,      \* the StrategyDecision (Null before deciding)
    dpc,            \* "input", "classified" or "decided"
    dCtxBefore,     \* the ErrorContext as it was when makeDecision was called
    dRemembered,    \* an earlier makeDecision call: its arguments and its decision
    dCalls,         \* number of makeDecision calls made so far
    \* ---- StrategyController.determineNextStrategy, applied repeatedly ----
    laCur,          \* the current strategy, Null once there is no further one
    laVisited,      \* the strategies visited so far, in order
    \* ---- StrategyController.selectInitialStrategy ----
    siCriteria,     \* the StrategySelectionCriteria handed in
    siResults,      \* what the calls made so far returned, in order
    \* ---- TestExecutor.executeSequence / executeParallel ----
    teCall,         \* the call: method, number of targets, its arguments
    tePc,           \* "loop", "await" or "done"
    teI,            \* the loop index (number of targets passed)
    teStatus,       \* per target: "pending", "running" or "finished"
    teOutcome,      \* per target: what this.execute resolved with
    teResults,      \* the local results array
    teErrors,       \* the local errors array
    teRet,          \* the value returned (Null while running)
    teLaunched,     \* the non-empty groups launched so far, in order
    \* ---- ParallelTestExecutor.executeParallel ----
    pbConfig,       \* this.config: [maxConcurrency, batchSize, failFast]
    pbPackages,     \* the packages argument: per package its path depth
    pbBatches,      \* what createBatches returned
    pbPc,           \* "loop", "race", "all" or "done"
    pbNext,         \* index of the next batch the for loop handles
    pbExecuting,    \* the executing array (batch indices)
    pbPromise,      \* per batch: state of its execution promise
    pbPos,          \* per batch: index of the package being tested
    pbLocal,        \* per batch: the results array of executeBatch
    pbResults,      \* the results array of executeBatches
    pbErrors,       \* the errors array of executeBatches
    pbAwaited,      \* state of the promise the loop is awaiting
    pbRet,          \* how the call ended (Null while running)
    pbFirstError,   \* the first target whose execution failed (0: none yet)
    pbLateStart,    \* TRUE once a batch was started after the first failure
    \* ---- DenoProcessExecutor.execute ----
    axTimeout,      \* options.timeout in ms (0: no timer is set)
    axPc,           \* "start", "running", "killed" or "returned"
    axElapsed,      \* ms since the process was spawned
    axTimedOut,     \* TRUE once the timer has killed the process
    axResult,       \* the Result the call returned (Null before)
    \* ---- ApplicationStateManager ----
    amState,        \* this.state
    amBus,          \* the event bus set: "none", "ok", or "throws" (emit rejects)
    amRet,          \* the last call and how it ended
    amPending,      \* handleError('fatal') calls waiting in `await emit`
    amCalls,        \* number of calls made so far
    \* ---- GoCI.executeAll / executeBatch (one stage) ----
    gcConfig,       \* this.config: mode, batchSize, enableFallback, stopOnFirstError
    gcN,            \* number of packages of the stage
    gcPc,           \* "all", "batch", "single", "done" or "thrown"
    gcI,            \* the loop index of executeBatch
    gcJ,            \* index in the batch of the package run on its own
    gcLog,          \* the executor calls made so far, in order
    gcResults,      \* the results array
    \* ---- an orchestration session (with config and state: its coordinator) ----
    ssPhase,        \* "running", "degrading", "stopped" or "completed"
    ssDecision,     \* the decision of the last round
    ssRound         \* the number of rounds run, modulo RoundModulus

feVars == <<config, eventBus, handler, state, emitted, now, feRet, grants, feCalls>>
deVars == <<dOutcome, dCtx, dConfig, dClass, dDecision, dpc, dCtxBefore, dRemembered, dCalls>>
laVars == <<laCur, laVisited>>
siVars == <<siCriteria, siResults>>
teVars == <<teCall, tePc, teI, teStatus, teOutcome, teResults, teErrors, teRet, teLaunched>>
pbVars == <<pbConfig, pbPackages, pbBatches, pbPc, pbNext, pbExecuting, pbPromise, pbPos,
            pbLocal, pbResults, pbErrors, pbAwaited, pbRet, pbFirstError, pbLateStart>>

axVars == <<axTimeout, axPc, axElapsed, axTimedOut, axResult>>
amVars == <<amState, amBus, amRet, amPending, amCalls>>
gcVars == <<gcConfig, gcN, gcPc, gcI, gcJ, gcLog, gcResults>>
ssVars == <<ssPhase, ssDecision, ssRound>>

vars == <<feVars, deVars, laVars, siVars, teVars, pbVars, axVars, amVars, gcVars, ssVars>>

\* What an action of one component leaves alone
notFE == <<deVars, laVars, siVars, teVars, pbVars, axVars, amVars, gcVars, ssVars>>
notDE == <<feVars, laVars, siVars, teVars, pbVars, axVars, amVars, gcVars, ssVars>>
notLA == <<feVars, deVars, siVars, teVars, pbVars, axVars, amVars, gcVars, ssVars>>
notSI == <<feVars, deVars, laVars, teVars, pbVars, axVars, amVars, gcVars, ssVars>>
notTE == <<feVars, deVars, laVars, siVars, pbVars, axVars, amVars, gcVars, ssVars>>
notPB == <<feVars, deVars, laVars, siVars, teVars, axVars, amVars, gcVars, ssVars>>
core == <<feVars, deVars, laVars, siVars, teVars, pbVars>>
notAX == <<core, amVars, gcVars, ssVars>>
notAM == <<config, eventBus, handler, state, emitted, feRet, grants, feCalls,
           deVars, laVars, siVars, teVars, pbVars, axVars, gcVars, ssVars>>
notGC == <<core, axVars, amVars, ssVars>>
notSS == <<eventBus, handler, emitted, now, feRet, grants, feCalls,
           deVars, laVars, siVars, teVars, pbVars, axVars, amVars, gcVars>>

-----------------------------------------------------------------------------
(* Bounds of the model *)

MaxRetriesBound == 2
MaxCalls == 4
MaxClock == 1

-----------------------------------------------------------------------------
(* Values *)

Null == [type |-> "null"]

\* ExecutionStrategy, a discriminated union
AllAtOnce(p) == [type |-> "all-at-once", parallel |-> p]
Batch(n, p) == [type |-> "batch", batchSize |-> n, parallel |-> p]
DirectoryByDirectory(k) == [type |-> "directory-by-directory", maxConcurrency |-> k]
FileByFile(s) == [type |-> "file-by-file", stopOnFirstError |-> s]

\* FallbackTrigger, a discriminated union
AllTestsFailed(n) == [type |-> "all-tests-failed", totalPackages |-> n]
ErrorThresholdExceeded(r, t) == [type |-> "error-threshold-exceeded", errorRate |-> r, threshold |-> t]
TimeoutExceeded(d, l) == [type |-> "timeout-exceeded", duration |-> d, limit |-> l]
FirstErrorDetected(t) == [type |-> "first-error-detected", target |-> t]

\* A number n/d kept exact; Half is the literal 0.5
Ratio(n, d) == [num |-> n, den |-> d]
Half == Ratio(1, 2)

\* Strategies and triggers the callers of the FallbackExecutor pass in
FEStrategies ==
    { AllAtOnce(FALSE), DirectoryByDirectory(5), FileByFile(TRUE) }

FETriggers ==
    { AllTestsFailed(4), ErrorThresholdExceeded(Ratio(3, 4), Half) }

-----------------------------------------------------------------------------
(* FallbackExecutor *)

StrategyToString(strategy) ==
    CASE strategy.type = "all-at-once" ->
            <<"all-at-once (parallel: ", strategy.parallel, ")">>
      [] strategy.type = "directory-by-directory" ->
            <<"directory-by-directory (concurrency: ", strategy.maxConcurrency, ")">>
      [] strategy.type = "file-by-file" ->
            <<"file-by-file (stop on error: ", strategy.stopOnFirstError, ")">>
      [] strategy.type = "batch" ->
            <<"batch (size: ", strategy.batchSize, ", parallel: ", strategy.parallel, ")">>

GetTriggerReason(trigger) ==
    CASE trigger.type = "all-tests-failed" ->
            <<"All ", trigger.totalPackages, " packages failed in initial execution">>
      [] trigger.type = "error-threshold-exceeded" ->
            <<"Error rate ", trigger.errorRate, " exceeded threshold of ", trigger.threshold>>
      [] trigger.type = "timeout-exceeded" ->
            <<"Execution time ", trigger.duration, "ms exceeded limit of ", trigger.limit, "ms">>
      [] trigger.type = "first-error-detected" ->
            <<"First error detected in ", trigger.target>>

FallbackEvent(from, to) ==
    [type |-> "error:fallback-triggered", from |-> from, to |-> to]

\* What is subscribed to the injected SimpleEventBus for the fallback event:
\*   "none"      no handler
\*   "resolves"  a handler that returns, or whose promise fulfils
\*   "rejects"   a handler that returns a promise that rejects
\*   "throws"    a handler that throws before it returns
Handlers == {"none", "resolves", "rejects", "throws"}

\* SimpleEventBus.emit: a rejection of a handler's promise is caught and logged;
\* an exception thrown by the handler call itself, inside the map callback,
\* leaves emit before any promise exists and rejects the promise emit returns
EmitRejects(h) == h = "throws"

FEIdle ==
    /\ config = [enabled |-> FALSE, maxRetries |-> 0]
    /\ eventBus = FALSE
    /\ handler = "none"
    /\ state = Null
    /\ emitted = <<>>
    /\ now = 0
    /\ feRet = [op |-> "none"]
    /\ grants = 0
    /\ feCalls = 0

\* new FallbackExecutor(config, eventBus?)
FEInit ==
    /\ config \in [enabled : BOOLEAN, maxRetries : 0..MaxRetriesBound]
    /\ eventBus \in BOOLEAN
    /\ handler \in (IF eventBus THEN Handlers ELSE {"none"})
    /\ state = Null
    /\ emitted = <<>>
    /\ now = 0
    /\ feRet = [op |-> "none"]
    /\ grants = 0
    /\ feCalls = 0

InitialState_KeepsHistory(originalStrategy) ==
    IF state = Null
      THEN [ originalStrategy |-> originalStrategy,
             currentStrategy  |-> originalStrategy,
             fallbackCount    |-> 0,
             triggers         |-> <<>>,
             startTime        |-> now ]
      ELSE [state EXCEPT !.originalStrategy = originalStrategy,
                         !.currentStrategy = originalStrategy,
                         !.startTime = now]

\* The state initialize() installs
InitialState(originalStrategy) ==
    [ originalStrategy |-> originalStrategy,
      currentStrategy  |-> originalStrategy,
      fallbackCount    |-> 0,
      triggers         |-> <<>>,
      startTime        |-> now ]

Initialize(originalStrategy) ==
    /\ feCalls < MaxCalls
    /\ state' = InitialState(originalStrategy)
    /\ feRet' = [op |-> "initialize"]
    /\ grants' = 0
    /\ feCalls' = feCalls + 1
    /\ UNCHANGED <<config, eventBus, handler, emitted, now, notFE>>

\* The guard of executeFallback that denies a request on an initialized executor
RetriesExceeded_NoCheck(s) == FALSE

RetriesExceeded_OffByOne(s) == s.fallbackCount > config.maxRetries

RetriesExceeded(s) == s.fallbackCount >= config.maxRetries

\* The state executeFallback installs when it grants
GrantedState(s, trigger, newStrategy) ==
    [s EXCEPT !.currentStrategy = newStrategy,
              !.fallbackCount = s.fallbackCount + 1,
              !.triggers = Append(s.triggers, trigger)]

ExecuteFallback_RecordsDenied(trigger, newStrategy) ==
    /\ feCalls < MaxCalls
    /\ feCalls' = feCalls + 1
    /\ IF state = Null THEN
            /\ feRet' = [op |-> "executeFallback", executed |-> FALSE,
                         reason |-> <<"Fallback executor not initialized">>]
            /\ UNCHANGED <<state, emitted, grants>>
       ELSE IF RetriesExceeded(state) THEN
            /\ feRet' = [op |-> "executeFallback", executed |-> FALSE,
                         reason |-> <<"Maximum fallback retries (", config.maxRetries, ") exceeded">>]
            /\ state' = [state EXCEPT !.triggers = Append(state.triggers, trigger)]
            /\ UNCHANGED <<emitted, grants>>
       ELSE
            /\ state' = GrantedState(state, trigger, newStrategy)
            /\ emitted' = IF eventBus
                            THEN Append(emitted,
                                   FallbackEvent(StrategyToString(state.currentStrategy),
                                                 StrategyToString(newStrategy)))
                            ELSE emitted
            /\ IF eventBus /\ EmitRejects(handler)
                 THEN \* `await this.eventBus.emit(...)` throws: no result
                      /\ feRet' = [op |-> "executeFallback", thrown |-> TRUE]
                      /\ grants' = grants
                 ELSE /\ feRet' = [op |-> "executeFallback", executed |-> TRUE,
                                   newStrategy |-> newStrategy,
                                   reason |-> GetTriggerReason(trigger)]
                      /\ grants' = grants + 1
    /\ UNCHANGED <<config, eventBus, handler, now, notFE>>

ExecuteFallback(trigger, newStrategy) ==
    /\ feCalls < MaxCalls
    /\ feCalls' = feCalls + 1
    /\ IF state = Null THEN
            /\ feRet' = [op |-> "executeFallback", executed |-> FALSE,
                         reason |-> <<"Fallback executor not initialized">>]
            /\ UNCHANGED <<state, emitted, grants>>
       ELSE IF RetriesExceeded(state) THEN
            /\ feRet' = [op |-> "executeFallback", executed |-> FALSE,
                         reason |-> <<"Maximum fallback retries (", config.maxRetries, ") exceeded">>]
            /\ UNCHANGED <<state, emitted, grants>>
       ELSE
            /\ state' = GrantedState(state, trigger, newStrategy)
            /\ emitted' = IF eventBus
                            THEN Append(emitted,
                                   FallbackEvent(StrategyToString(state.currentStrategy),
                                                 StrategyToString(newStrategy)))
                            ELSE emitted
            /\ IF eventBus /\ EmitRejects(handler)
                 THEN \* `await this.eventBus.emit(...)` throws: no result
                      /\ feRet' = [op |-> "executeFallback", thrown |-> TRUE]
                      /\ grants' = grants
                 ELSE /\ feRet' = [op |-> "executeFallback", executed |-> TRUE,
                                   newStrategy |-> newStrategy,
                                   reason |-> GetTriggerReason(trigger)]
                      /\ grants' = grants + 1
    /\ UNCHANGED <<config, eventBus, handler, now, notFE>>

GetState ==
    /\ feCalls < MaxCalls
    /\ feCalls' = feCalls + 1
    /\ feRet' = [op |-> "getState", value |-> state]
    /\ UNCHANGED <<config, eventBus, handler, state, emitted, now, grants, notFE>>

Reset ==
    /\ feCalls < MaxCalls
    /\ feCalls' = feCalls + 1
    /\ state' = Null
    /\ feRet' = [op |-> "reset"]
    /\ UNCHANGED <<config, eventBus, handler, emitted, now, grants, notFE>>

CanFallbackValue_IgnoresEnabled ==
    IF state = Null
      THEN FALSE
      ELSE state.fallbackCount < config.maxRetries

CanFallbackValue ==
    IF ~config.enabled \/ state = Null
      THEN FALSE
      ELSE state.fallbackCount < config.maxRetries

CanFallback ==
    /\ feCalls < MaxCalls
    /\ feCalls' = feCalls + 1
    /\ feRet' = [op |-> "canFallback", value |-> CanFallbackValue]
    /\ UNCHANGED <<config, eventBus, handler, state, emitted, now, grants, notFE>>

FallbackHistoryValue == IF state # Null THEN state.triggers ELSE <<>>

GetFallbackHistory ==
    /\ feCalls < MaxCalls
    /\ feCalls' = feCalls + 1
    /\ feRet' = [op |-> "getFallbackHistory", value |-> FallbackHistoryValue]
    /\ UNCHANGED <<config, eventBus, handler, state, emitted, now, grants, notFE>>

\* Time passes between calls (Date.now() is read by initialize)
Tick ==
    /\ now < MaxClock
    /\ now' = now + 1
    /\ UNCHANGED <<config, eventBus, handler, state, emitted, feRet, grants, feCalls, notFE>>

FENext ==
    \/ \E s \in FEStrategies : Initialize(s)
    \/ \E t \in FETriggers, s \in FEStrategies : ExecuteFallback(t, s)
    \/ GetState
    \/ Reset
    \/ CanFallback
    \/ GetFallbackHistory
    \/ Tick

-----------------------------------------------------------------------------
(* classifyExitCode *)

\* ProcessResult.signal is optional: NoSignal stands for undefined
NoSignal == "<undefined>"

ProcessResult(exitCode, signal, killed) ==
    [exitCode |-> exitCode, signal |-> signal, killed |-> killed]

\* `result.signal` used as a condition
SignalTruthy(signal) == signal # NoSignal

ClassifyExitCode_KilledFirst(result) ==
    IF result.exitCode = 0 THEN [type |-> "success", code |-> 0]
    ELSE IF result.killed /\ SignalTruthy(result.signal)
      THEN [type |-> "killed", code |-> result.exitCode, signal |-> result.signal]
    ELSE IF result.exitCode = 1 /\ ~result.killed THEN [type |-> "test-failure", code |-> 1]
    ELSE IF result.exitCode = 2 THEN [type |-> "build-error", code |-> 2]
    ELSE IF result.exitCode = 124 THEN [type |-> "timeout", code |-> 124]
    ELSE [type |-> "unknown", code |-> result.exitCode]

ClassifyExitCode(result) ==
    IF result.exitCode = 0 THEN [type |-> "success", code |-> 0]
    ELSE IF result.exitCode = 1 /\ ~result.killed THEN [type |-> "test-failure", code |-> 1]
    ELSE IF result.exitCode = 2 THEN [type |-> "build-error", code |-> 2]
    ELSE IF result.exitCode = 124 THEN [type |-> "timeout", code |-> 124]
    ELSE IF result.killed /\ SignalTruthy(result.signal)
      THEN [type |-> "killed", code |-> result.exitCode, signal |-> result.signal]
    ELSE [type |-> "unknown", code |-> result.exitCode]

-----------------------------------------------------------------------------
(* StrategyController *)

Continue(reason) == [action |-> "continue", reason |-> reason]
Stop(reason, exitCode) == [action |-> "stop", reason |-> reason, exitCode |-> exitCode]
Fallback(newStrategy, trigger) ==
    [action |-> "fallback", newStrategy |-> newStrategy, trigger |-> trigger]

ErrorContext(strategy, executed, failed, total, duration, history) ==
    [ executionStrategy |-> strategy,
      targetsExecuted   |-> executed,
      targetsFailed     |-> failed,
      totalTargets      |-> total,
      duration          |-> duration,
      errorHistory      |-> history ]

\* Math.floor(n / 2) for n >= 0
FloorHalf(n) == n \div 2

Max(a, b) == IF a >= b THEN a ELSE b

DetermineNextStrategy_Cycle(current) ==
    CASE current.type = "all-at-once" -> DirectoryByDirectory(5)
      [] current.type = "batch" ->
            Batch(Max(1, FloorHalf(current.batchSize)), FALSE)
      [] current.type = "directory-by-directory" -> FileByFile(TRUE)
      [] current.type = "file-by-file" -> DirectoryByDirectory(5)
      [] OTHER -> Null

DetermineNextStrategy(current) ==
    CASE current.type = "all-at-once" -> DirectoryByDirectory(5)
      [] current.type = "batch" ->
            Batch(Max(1, FloorHalf(current.batchSize)), FALSE)
      [] current.type = "directory-by-directory" -> FileByFile(TRUE)
      [] current.type = "file-by-file" -> Null
      [] OTHER -> Null

\* errorRate = targetsFailed / targetsExecuted, a floating-point division of
\* two counts: n/0 is Infinity for n > 0 and 0/0 is NaN
ErrorRateIsOne_Above(context) ==
    context.targetsExecuted # 0 /\ context.targetsFailed > context.targetsExecuted

ErrorRateIsOne(context) ==
    context.targetsExecuted # 0 /\ context.targetsFailed = context.targetsExecuted

ErrorRateAboveHalf(context) ==
    IF context.targetsExecuted = 0
      THEN context.targetsFailed > 0
      ELSE 2 * context.targetsFailed > context.targetsExecuted

ErrorRate(context) == Ratio(context.targetsFailed, context.targetsExecuted)

CheckFallbackConditions_NoMinimum(context, cfg) ==
    IF ~cfg.enabled THEN Null
    ELSE IF ErrorRateIsOne(context) /\ context.executionStrategy.type = "all-at-once"
      THEN Fallback(DirectoryByDirectory(5), AllTestsFailed(context.totalTargets))
    ELSE IF /\ ErrorRateAboveHalf(context)
            /\ DetermineNextStrategy(context.executionStrategy) # Null
      THEN Fallback(DetermineNextStrategy(context.executionStrategy),
                    ErrorThresholdExceeded(ErrorRate(context), Half))
    ELSE Null

\* Null when no fallback condition is met
CheckFallbackConditions(context, cfg) ==
    IF ~cfg.enabled THEN Null
    ELSE IF ErrorRateIsOne(context) /\ context.executionStrategy.type = "all-at-once"
      THEN Fallback(DirectoryByDirectory(5), AllTestsFailed(context.totalTargets))
    ELSE IF /\ ErrorRateAboveHalf(context)
            /\ context.targetsExecuted >= 3
            /\ DetermineNextStrategy(context.executionStrategy) # Null
      THEN Fallback(DetermineNextStrategy(context.executionStrategy),
                    ErrorThresholdExceeded(ErrorRate(context), Half))
    ELSE Null

\* makeDecision, the build-error branch
BuildErrorDecision_Retry(context, cfg) ==
    IF cfg.enabled
      THEN Fallback(DirectoryByDirectory(5), AllTestsFailed(context.totalTargets))
      ELSE Stop(<<"Build error detected">>, 2)

BuildErrorDecision(context, cfg) == Stop(<<"Build error detected">>, 2)

TimeoutDecision_IgnoresEnabled(context, cfg) ==
    IF context.executionStrategy.type = "all-at-once"
      THEN Fallback(DirectoryByDirectory(3), TimeoutExceeded(context.duration, 0))
      ELSE Stop(<<"Timeout exceeded">>, 124)

TimeoutDecision_AnyStrategy(context, cfg) ==
    IF cfg.enabled
      THEN Fallback(DirectoryByDirectory(3), TimeoutExceeded(context.duration, 0))
      ELSE Stop(<<"Timeout exceeded">>, 124)

\* makeDecision, the timeout branch
TimeoutDecision(context, cfg) ==
    IF cfg.enabled /\ context.executionStrategy.type = "all-at-once"
      THEN Fallback(DirectoryByDirectory(3), TimeoutExceeded(context.duration, 0))
      ELSE Stop(<<"Timeout exceeded">>, 124)

\* makeDecision, the test-failure branch
TestFailureDecision_Counting(context, cfg) ==
    IF dCalls >= 1
      THEN Stop(<<"First error detected in file-by-file mode">>, 1)
      ELSE Continue(<<"Test failure detected, continuing execution">>)

TestFailureDecision(context, cfg) ==
    IF CheckFallbackConditions(context, cfg) # Null
      THEN CheckFallbackConditions(context, cfg)
    ELSE IF /\ context.executionStrategy.type = "file-by-file"
            /\ context.executionStrategy.stopOnFirstError
      THEN Stop(<<"First error detected in file-by-file mode">>, 1)
    ELSE Continue(<<"Test failure detected, continuing execution">>)

UnknownDecision_ExitOne(classification) ==
    Stop(<<"Unknown error: exit code ", classification.code>>, 1)

\* makeDecision, the last branch (classifications killed and unknown)
UnknownDecision(classification) ==
    Stop(<<"Unknown error: exit code ", classification.code>>, classification.code)

MakeDecision(classification, context, cfg) ==
    IF classification.type = "success" THEN Continue(<<"Tests passed successfully">>)
    ELSE IF classification.type = "build-error" THEN BuildErrorDecision(context, cfg)
    ELSE IF classification.type = "timeout" THEN TimeoutDecision(context, cfg)
    ELSE IF classification.type = "test-failure" THEN TestFailureDecision(context, cfg)
    ELSE UnknownDecision(classification)

\* The ErrorContext object of the caller once makeDecision has returned:
\* makeDecision and checkFallbackConditions only read it
ContextAfterDecision(classification, context, cfg) == context

-----------------------------------------------------------------------------
(* A caller that classifies a process outcome and asks for a decision *)

MaxTargets == 4
MaxDuration == 1
MaxDecisions == 3

ExitCodes == {0, 1, 2, 3, 124, 137}
Signals == {NoSignal, "SIGTERM", "SIGKILL"}

Outcomes ==
    { ProcessResult(c, s, k) : c \in ExitCodes, s \in Signals, k \in BOOLEAN }

DEStrategies ==
    { AllAtOnce(FALSE), AllAtOnce(TRUE), Batch(1, TRUE), Batch(5, FALSE), Batch(10, TRUE),
      DirectoryByDirectory(3), DirectoryByDirectory(5), FileByFile(TRUE), FileByFile(FALSE) }

\* An ErrorRecord of the caller's errorHistory
ErrorRecord(target, exitCode, errorType) ==
    [timestamp |-> 0, target |-> target, exitCode |-> exitCode, errorType |-> errorType]

Contexts ==
    { ErrorContext(s, e, f, t, d, <<>>) :
        s \in DEStrategies, e \in 0..MaxTargets, f \in 0..MaxTargets,
        t \in {0, MaxTargets}, d \in 0..MaxDuration }

ValidContext(c) ==
    /\ c.targetsFailed <= c.targetsExecuted
    /\ c.targetsExecuted <= c.totalTargets

Configs == [enabled : BOOLEAN, maxRetries : {0, MaxRetriesBound}]

\* The inputs of the purity check: one outcome per classification, and
\* contexts with and without history
PurityOutcomes ==
    { ProcessResult(1, NoSignal, FALSE), ProcessResult(2, NoSignal, FALSE),
      ProcessResult(124, NoSignal, FALSE), ProcessResult(137, "SIGKILL", TRUE) }

PurityContexts ==
    { ErrorContext(s, MaxTargets, f, MaxTargets, 0, h) :
        s \in {AllAtOnce(FALSE), FileByFile(TRUE)},
        f \in {1, MaxTargets},
        h \in {<<>>, <<ErrorRecord(1, 1, "test-failure")>>} }

PurityConfigs == [enabled : BOOLEAN, maxRetries : {MaxRetriesBound}]

DEIdle ==
    /\ dOutcome = ProcessResult(0, NoSignal, FALSE)
    /\ dCtx = Null
    /\ dConfig = Null
    /\ dClass = Null
    /\ dDecision = Null
    /\ dpc = "idle"
    /\ dCtxBefore = Null
    /\ dRemembered = Null
    /\ dCalls = 0

DEStart ==
    /\ dClass = Null
    /\ dDecision = Null
    /\ dpc = "input"
    /\ dCtxBefore = Null
    /\ dRemembered = Null
    /\ dCalls = 0

DEInit ==
    /\ dOutcome \in Outcomes
    /\ dCtx \in { c \in Contexts : ValidContext(c) }
    /\ dConfig \in Configs
    /\ DEStart

PurityInit ==
    /\ dOutcome \in PurityOutcomes
    /\ dCtx \in PurityContexts
    /\ dConfig \in PurityConfigs
    /\ DEStart

\* const classification = classifyExitCode(result.processResult)
Classify ==
    /\ dpc = "input"
    /\ dClass' = ClassifyExitCode(dOutcome)
    /\ dpc' = "classified"
    /\ UNCHANGED <<dOutcome, dCtx, dConfig, dDecision, dCtxBefore, dRemembered, dCalls, notDE>>

\* StrategyController.makeDecision(classification, context, config)
Decide ==
    /\ dpc = "classified"
    /\ dDecision' = MakeDecision(dClass, dCtx, dConfig)
    /\ dCtxBefore' = dCtx
    /\ dCtx' = ContextAfterDecision(dClass, dCtx, dConfig)
    /\ dCalls' = dCalls + 1
    /\ dpc' = "decided"
    /\ UNCHANGED <<dOutcome, dConfig, dClass, dRemembered, notDE>>

\* The caller keeps one call (arguments and decision) for later comparison
Remember ==
    /\ dpc = "decided"
    /\ dRemembered = Null
    /\ dRemembered' = [classification |-> dClass, context |-> dCtxBefore,
                       cfg |-> dConfig, decision |-> dDecision, at |-> dCalls]
    /\ UNCHANGED <<dOutcome, dCtx, dConfig, dClass, dDecision, dpc, dCtxBefore, dCalls, notDE>>

\* The caller starts another round with another outcome, context and config
NewRound ==
    /\ dpc = "decided"
    /\ dCalls < MaxDecisions
    /\ dOutcome' \in PurityOutcomes
    /\ dCtx' \in PurityContexts
    /\ dConfig' \in PurityConfigs
    /\ dpc' = "input"
    /\ UNCHANGED <<dClass, dDecision, dCtxBefore, dRemembered, dCalls, notDE>>

DENext == Classify \/ Decide

PurityNext == Classify \/ Decide \/ Remember \/ NewRound

-----------------------------------------------------------------------------
(* The fallback chain: determineNextStrategy applied again and again *)

MaxBatchSize == 8
MaxLadderSteps == 6

LadderStarts ==
    { AllAtOnce(p) : p \in BOOLEAN }
      \cup { Batch(n, p) : n \in 1..MaxBatchSize, p \in BOOLEAN }
      \cup { DirectoryByDirectory(k) : k \in {3, 5} }
      \cup { FileByFile(b) : b \in BOOLEAN }

LAIdle ==
    /\ laCur = Null
    /\ laVisited = <<>>

LAInit ==
    /\ laCur \in LadderStarts
    /\ laVisited = <<laCur>>

LadderStep ==
    /\ laCur # Null
    /\ Len(laVisited) < MaxLadderSteps
    /\ laCur' = DetermineNextStrategy(laCur)
    /\ laVisited' = IF DetermineNextStrategy(laCur) # Null
                      THEN Append(laVisited, DetermineNextStrategy(laCur))
                      ELSE laVisited
    /\ UNCHANGED notLA

LANext == LadderStep

-----------------------------------------------------------------------------
(* StrategyController.selectInitialStrategy *)

MaxSelectCalls == 2

\* StrategySelectionCriteria; resourceConstraints is optional (Null: undefined)
Criteria(totalPackages, hasComplexDependencies, timeConstraints, resourceConstraints) ==
    [ totalPackages          |-> totalPackages,
      hasComplexDependencies |-> hasComplexDependencies,
      timeConstraints        |-> timeConstraints,
      previousFailures       |-> 0,
      resourceConstraints    |-> resourceConstraints ]

ResourceConstraints(maxConcurrency) ==
    [maxConcurrency |-> maxConcurrency, memoryLimit |-> 0]

\* `criteria.resourceConstraints?.maxConcurrency || 5`: the right operand is
\* taken when the left one is undefined or a falsy number (0)
MaxConcurrencyOrDefault(resourceConstraints) ==
    IF resourceConstraints = Null THEN 5
    ELSE IF resourceConstraints.maxConcurrency = 0 THEN 5
    ELSE resourceConstraints.maxConcurrency

SelectInitialStrategy_SmallBelowTen(criteria) ==
    IF criteria.totalPackages < 10 \/ criteria.timeConstraints < 60
      THEN AllAtOnce(FALSE)
    ELSE IF /\ criteria.totalPackages <= 50
            /\ \/ criteria.resourceConstraints = Null
               \/ criteria.resourceConstraints.maxConcurrency >= 4
      THEN Batch(10, TRUE)
    ELSE IF criteria.totalPackages > 50 \/ criteria.hasComplexDependencies
      THEN DirectoryByDirectory(MaxConcurrencyOrDefault(criteria.resourceConstraints))
    ELSE FileByFile(TRUE)

SelectInitialStrategy(criteria) ==
    IF criteria.totalPackages <= 10 \/ criteria.timeConstraints < 60
      THEN AllAtOnce(FALSE)
    ELSE IF /\ criteria.totalPackages <= 50
            /\ \/ criteria.resourceConstraints = Null
               \/ criteria.resourceConstraints.maxConcurrency >= 4
      THEN Batch(10, TRUE)
    ELSE IF criteria.totalPackages > 50 \/ criteria.hasComplexDependencies
      THEN DirectoryByDirectory(MaxConcurrencyOrDefault(criteria.resourceConstraints))
    ELSE FileByFile(TRUE)

\* Criteria on both sides of every threshold the selection compares with
SIPackageCounts == {0, 5, 10, 11, 30, 50, 51, 200}
SITimeConstraints == {0, 59, 60, 300}
SIResourceConstraints ==
    {Null} \cup { ResourceConstraints(k) : k \in {-1, 0, 1, 3, 4, 5, 8} }

SICriteria ==
    { Criteria(n, c, t, r) : n \in SIPackageCounts, c \in BOOLEAN,
                             t \in SITimeConstraints, r \in SIResourceConstraints }

SIIdle ==
    /\ siCriteria = Null
    /\ siResults = <<>>

SIInit ==
    /\ siCriteria \in SICriteria
    /\ siResults = <<>>

\* One more call with the same criteria
SelectInitial ==
    /\ siCriteria # Null
    /\ Len(siResults) < MaxSelectCalls
    /\ siResults' = Append(siResults, SelectInitialStrategy(siCriteria))
    /\ UNCHANGED <<siCriteria, notSI>>

SINext == SelectInitial

-----------------------------------------------------------------------------
(* TestExecutor.executeSequence and TestExecutor.executeParallel *)

MaxRunTargets == 5
MaxConcurrencyBound == 3

\* Result<T, E>
Success(data) == [ok |-> TRUE, data |-> data]
Failure(error) == [ok |-> FALSE, error |-> error]

\* What this.execute(target, ...) resolves with:
\*   "passed"       success(result) with exit code 0      (result.success)
\*   "failed"       success(result) with another exit code (!result.success)
\*   "spawn-failed" failure(ProcessSpawnFailed): the process executor failed
ExecOutcomes == {"passed", "failed", "spawn-failed"}

ExecuteResult(target, outcome) ==
    IF outcome = "spawn-failed"
      THEN Failure([domain |-> "execution", kind |-> "ProcessSpawnFailed", target |-> target])
      ELSE Success([target |-> target, success |-> (outcome = "passed")])

Min(a, b) == IF a <= b THEN a ELSE b

Slice_Overlapping(i, k, n) == [j \in 1..(Min(i + k + 1, n) - i) |-> i + j]

\* targets.slice(i, i + maxConcurrency), as indices into targets
Slice(i, k, n) == [j \in 1..(Min(i + k, n) - i) |-> i + j]

TargetsOf(call) == 1..call.n

TECalls ==
    [method : {"executeSequence"}, n : 0..MaxRunTargets, stopOnFailure : BOOLEAN]
      \cup [method : {"executeParallel"}, n : 0..MaxRunTargets,
            maxConcurrency : 0..MaxConcurrencyBound]

TEIdle ==
    /\ teCall = Null
    /\ tePc = "idle"
    /\ teI = 0
    /\ teStatus = <<>>
    /\ teOutcome = <<>>
    /\ teResults = <<>>
    /\ teErrors = <<>>
    /\ teRet = Null
    /\ teLaunched = <<>>

TEInit ==
    /\ teCall \in TECalls
    /\ tePc = "loop"
    /\ teI = 0
    /\ teStatus = [t \in TargetsOf(teCall) |-> "pending"]
    /\ teOutcome = [t \in TargetsOf(teCall) |-> "none"]
    /\ teResults = <<>>
    /\ teErrors = <<>>
    /\ teRet = Null
    /\ teLaunched = <<>>

\* executeSequence: the loop takes the next target and awaits this.execute
SeqStart ==
    /\ teCall.method = "executeSequence"
    /\ tePc = "loop"
    /\ teI < teCall.n
    /\ teStatus' = [teStatus EXCEPT ![teI + 1] = "running"]
    /\ teLaunched' = Append(teLaunched, <<teI + 1>>)
    /\ tePc' = "await"
    /\ UNCHANGED <<teCall, teI, teOutcome, teResults, teErrors, teRet, notTE>>

\* executeSequence: the break condition after a result was pushed
BreaksLoop_Never(stopOnFailure, result) == FALSE

BreaksLoop(stopOnFailure, result) == stopOnFailure /\ ~result.success

\* executeSequence: this.execute resolves and the loop body runs to its end
SeqFinish(o) ==
    /\ teCall.method = "executeSequence"
    /\ tePc = "await"
    /\ teStatus' = [teStatus EXCEPT ![teI + 1] = "finished"]
    /\ teOutcome' = [teOutcome EXCEPT ![teI + 1] = o]
    /\ LET result == ExecuteResult(teI + 1, o) IN
         IF ~result.ok THEN
              /\ teRet' = Failure(result.error)
              /\ tePc' = "done"
              /\ UNCHANGED <<teI, teResults>>
         ELSE IF BreaksLoop(teCall.stopOnFailure, result.data) THEN
              /\ teResults' = Append(teResults, result.data)
              /\ teRet' = Success(Append(teResults, result.data))
              /\ tePc' = "done"
              /\ UNCHANGED teI
         ELSE
              /\ teResults' = Append(teResults, result.data)
              /\ teI' = teI + 1
              /\ tePc' = "loop"
              /\ UNCHANGED teRet
    /\ UNCHANGED <<teCall, teErrors, teLaunched, notTE>>

\* executeSequence: the loop is over
SeqReturn ==
    /\ teCall.method = "executeSequence"
    /\ tePc = "loop"
    /\ teI >= teCall.n
    /\ teRet' = Success(teResults)
    /\ tePc' = "done"
    /\ UNCHANGED <<teCall, teI, teStatus, teOutcome, teResults, teErrors, teLaunched, notTE>>

\* executeParallel: the loop slices the next batch and maps this.execute over it
ParLaunch ==
    /\ teCall.method = "executeParallel"
    /\ tePc = "loop"
    /\ teI < teCall.n
    /\ LET batch == Slice(teI, teCall.maxConcurrency, teCall.n) IN
         /\ teStatus' = [t \in TargetsOf(teCall) |->
                           IF \E j \in 1..Len(batch) : batch[j] = t
                             THEN "running" ELSE teStatus[t]]
         /\ teLaunched' = IF Len(batch) > 0 THEN Append(teLaunched, batch)
                                           ELSE teLaunched
    /\ tePc' = "await"
    /\ UNCHANGED <<teCall, teI, teOutcome, teResults, teErrors, teRet, notTE>>

\* executeParallel: one this.execute of the running batch resolves
ParFinish(t, o) ==
    /\ teCall.method = "executeParallel"
    /\ teStatus[t] = "running"
    /\ teStatus' = [teStatus EXCEPT ![t] = "finished"]
    /\ teOutcome' = [teOutcome EXCEPT ![t] = o]
    /\ UNCHANGED <<teCall, tePc, teI, teResults, teErrors, teRet, teLaunched, notTE>>

\* await Promise.all(batchPromises): when the awaiting loop goes on
BatchSettled_Any(batch) == \E j \in 1..Len(batch) : teStatus[batch[j]] = "finished"

BatchSettled(batch) == \A j \in 1..Len(batch) : teStatus[batch[j]] = "finished"

IsOk(t) == teOutcome[t] \in {"passed", "failed"}
IsErr(t) == teOutcome[t] = "spawn-failed"
DataOf(t) == ExecuteResult(t, teOutcome[t]).data
ErrorOf(t) == ExecuteResult(t, teOutcome[t]).error

\* The results and the errors the loop over batchResults pushes
BatchData(batch) ==
    LET oks == SelectSeq(batch, IsOk) IN [j \in 1..Len(oks) |-> DataOf(oks[j])]

BatchErrors(batch) ==
    LET errs == SelectSeq(batch, IsErr) IN [j \in 1..Len(errs) |-> ErrorOf(errs[j])]

\* executeParallel: Promise.all resolved; the results are sorted into the arrays
ParJoin ==
    /\ teCall.method = "executeParallel"
    /\ tePc = "await"
    /\ LET batch == Slice(teI, teCall.maxConcurrency, teCall.n) IN
         /\ BatchSettled(batch)
         /\ teResults' = teResults \o BatchData(batch)
         /\ teErrors' = teErrors \o BatchErrors(batch)
    /\ teI' = teI + teCall.maxConcurrency
    /\ tePc' = "loop"
    /\ UNCHANGED <<teCall, teStatus, teOutcome, teRet, teLaunched, notTE>>

\* The value executeParallel returns from its arrays
ParallelReturnValue(results, errors) ==
    IF Len(errors) > 0
      THEN Failure([domain |-> "execution", kind |-> "ProcessSpawnFailed",
                    details |-> [errors |-> errors,
                                 message |-> "Multiple execution failures"]])
      ELSE Success(results)

\* executeParallel: the loop is over
ParReturn ==
    /\ teCall.method = "executeParallel"
    /\ tePc = "loop"
    /\ teI >= teCall.n
    /\ teRet' = ParallelReturnValue(teResults, teErrors)
    /\ tePc' = "done"
    /\ UNCHANGED <<teCall, teI, teStatus, teOutcome, teResults, teErrors, teLaunched, notTE>>

TENext ==
    \/ SeqStart
    \/ \E o \in ExecOutcomes : SeqFinish(o)
    \/ SeqReturn
    \/ ParLaunch
    \/ \E t \in TargetsOf(teCall), o \in ExecOutcomes : ParFinish(t, o)
    \/ ParJoin
    \/ ParReturn

-----------------------------------------------------------------------------
(* ParallelTestExecutor *)

MaxPackages == 3

\* Path depths of the packages handed in (a.split('/').length)
Depths == {1, 2}

PBConfigs ==
    [maxConcurrency : 1..MaxConcurrencyBound, batchSize : 1..MaxConcurrencyBound,
     failFast : BOOLEAN]

PBPackageLists == UNION { [1..n -> Depths] : n \in 0..MaxPackages }

Indices(seq) == [i \in 1..Len(seq) |-> i]

\* [...packages].sort((a, b) => depthA - depthB): a stable sort by depth,
\* as the sequence of package indices
RECURSIVE SortedUpTo(_, _)
SortedUpTo(packages, d) ==
    IF d = 0 THEN <<>>
    ELSE LET HasDepth(i) == packages[i] = d
         IN SortedUpTo(packages, d - 1) \o SelectSeq(Indices(packages), HasDepth)

MaxOf(S) == CHOOSE x \in S : \A y \in S : y <= x

SortedPackages(packages) == SortedUpTo(packages, MaxOf(Depths))

\* Number of iterations of `for (i = 0; i < n; i += batchSize)`
BatchCount(n, batchSize) == (n + batchSize - 1) \div batchSize

CreateBatches(packages, batchSize) ==
    LET sorted == SortedPackages(packages)
        n == Len(sorted)
    IN [b \in 1..BatchCount(n, batchSize) |->
          [j \in 1..(Min(b * batchSize, n) - (b - 1) * batchSize) |->
             sorted[(b - 1) * batchSize + j]]]

\* How executeParallel ended
Returned(value) == [how |-> "returned", value |-> value]
Thrown(error) == [how |-> "thrown", error |-> error]

\* The DomainError this.executor.test(pkg) fails with
TestError(pkg) == [domain |-> "execution", kind |-> "ProcessSpawnFailed", target |-> pkg]

\* The entry executeBatch pushes for a package whose test call failed
FailedEntry(pkg) ==
    [target |-> pkg, success |-> FALSE, exitCode |-> 1,
     stderr |-> <<"Test execution failed: ", TestError(pkg).kind>>]

NotAwaiting == [st |-> "none"]

InSeq(x, seq) == \E j \in 1..Len(seq) : seq[j] = x

Without(seq, x) == LET Keep(y) == y # x IN SelectSeq(seq, Keep)

\* The package whose failure rejected the execution promise of batch b
RejectionOf(b) == TestError(pbBatches[b][pbPos[b]])

\* Promise.race(executing) / Promise.all(executing) on promises of which some
\* may have settled already: the first settled one in array order decides
AwaitOn(kind, executing, promise) ==
    LET IsRejected(b) == promise[b] = "rejected"
        rejected == SelectSeq(executing, IsRejected)
    IN
      IF Len(rejected) > 0
        THEN [st |-> "rejected", kind |-> kind, error |-> RejectionOf(rejected[1])]
      ELSE IF kind = "all" /\ Len(executing) = 0
        THEN [st |-> "fulfilled", kind |-> kind]
      ELSE [st |-> "pending", kind |-> kind, on |-> executing]

PBIdle ==
    /\ pbConfig = Null
    /\ pbPackages = <<>>
    /\ pbBatches = <<>>
    /\ pbPc = "idle"
    /\ pbNext = 1
    /\ pbExecuting = <<>>
    /\ pbPromise = <<>>
    /\ pbPos = <<>>
    /\ pbLocal = <<>>
    /\ pbResults = <<>>
    /\ pbErrors = <<>>
    /\ pbAwaited = NotAwaiting
    /\ pbRet = Null
    /\ pbFirstError = 0
    /\ pbLateStart = FALSE

\* new ParallelTestExecutor(executor, config), about to run executeParallel(packages)
PBInit ==
    /\ pbConfig \in PBConfigs
    /\ pbPackages \in PBPackageLists
    /\ pbBatches = <<>>
    /\ pbPc = "call"
    /\ pbNext = 1
    /\ pbExecuting = <<>>
    /\ pbPromise = <<>>
    /\ pbPos = <<>>
    /\ pbLocal = <<>>
    /\ pbResults = <<>>
    /\ pbErrors = <<>>
    /\ pbAwaited = NotAwaiting
    /\ pbRet = Null
    /\ pbFirstError = 0
    /\ pbLateStart = FALSE

\* The for loop of executeBatches runs without interruption from where it is
\* (re)entered up to its next await. StartsInRun is the number of batches it
\* starts on the way: after `await Promise.race` the batch at hand is started
\* whatever executing.length is, and then batches are started as long as
\* executing.length < maxConcurrency.
StartsInRun(batches, executing, next, resumed) ==
    LET remaining == Len(batches) - next + 1
        room == Max(0, pbConfig.maxConcurrency - Len(executing))
    IN IF resumed
         THEN 1 + Min(remaining - 1, Max(0, room - 1))
         ELSE Min(remaining, room)

\* Each start is this.executeBatch(batch, options).then(...) followed by
\* executing.push(execution): executeBatch runs up to its first await, the test
\* of its first package. The run ends in `await Promise.race(executing)` if
\* batches are left and in `await Promise.all(executing)` otherwise.
RunLoop(batches, resumed) ==
    LET m == StartsInRun(batches, pbExecuting, pbNext, resumed)
        started == pbNext..(pbNext + m - 1)
        executing == pbExecuting \o [j \in 1..m |-> pbNext + j - 1]
    IN
      /\ pbBatches' = batches
      /\ pbPromise' = [b \in 1..Len(batches) |->
                         IF b \in started THEN "pending"
                         ELSE IF b \in DOMAIN pbPromise THEN pbPromise[b] ELSE "none"]
      /\ pbPos' = [b \in 1..Len(batches) |->
                     IF b \in started THEN 1
                     ELSE IF b \in DOMAIN pbPos THEN pbPos[b] ELSE 0]
      /\ pbLocal' = [b \in 1..Len(batches) |->
                       IF b \in DOMAIN pbLocal THEN pbLocal[b] ELSE <<>>]
      /\ pbExecuting' = executing
      /\ pbNext' = pbNext + m
      /\ pbLateStart' = (pbLateStart \/ (m > 0 /\ pbFirstError # 0))
      /\ IF pbNext + m > Len(batches)
           THEN pbAwaited' = AwaitOn("all", executing, pbPromise') /\ pbPc' = "all"
           ELSE pbAwaited' = AwaitOn("race", executing, pbPromise') /\ pbPc' = "race"

\* executeParallel is called: createBatches, then executeBatches up to its
\* first await
PBCall ==
    /\ pbPc = "call"
    /\ IF Len(pbPackages) = 0 THEN
            /\ pbRet' = Returned(Success(<<>>))
            /\ pbPc' = "done"
            /\ UNCHANGED <<pbBatches, pbPromise, pbPos, pbLocal, pbExecuting, pbNext,
                           pbLateStart, pbAwaited>>
       ELSE
            /\ RunLoop(CreateBatches(pbPackages, pbConfig.batchSize), FALSE)
            /\ UNCHANGED pbRet
    /\ UNCHANGED <<pbConfig, pbPackages, pbResults, pbErrors, pbFirstError, notPB>>

\* executeBatches: `await Promise.race(executing)` is resumed; a rejection is
\* thrown out of executeBatches and executeParallel
PBRaceResume ==
    /\ pbPc = "race"
    /\ pbAwaited.st # "pending"
    /\ IF pbAwaited.st = "rejected" THEN
            /\ pbRet' = Thrown(pbAwaited.error)
            /\ pbPc' = "done"
            /\ pbAwaited' = NotAwaiting
            /\ UNCHANGED <<pbBatches, pbPromise, pbPos, pbLocal, pbExecuting, pbNext,
                           pbLateStart>>
       ELSE
            /\ RunLoop(pbBatches, TRUE)
            /\ UNCHANGED pbRet
    /\ UNCHANGED <<pbConfig, pbPackages, pbResults, pbErrors, pbFirstError, notPB>>

\* The promise being awaited, after the execution promise of batch b settled
Settle(awaited, b, promise) ==
    IF awaited.st # "pending" \/ ~InSeq(b, awaited.on) THEN awaited
    ELSE IF promise[b] = "rejected"
      THEN [st |-> "rejected", kind |-> awaited.kind, error |-> RejectionOf(b)]
    ELSE IF awaited.kind = "race"
      THEN [st |-> "fulfilled", kind |-> awaited.kind]
    ELSE IF \A j \in 1..Len(awaited.on) : promise[awaited.on[j]] = "fulfilled"
      THEN [st |-> "fulfilled", kind |-> awaited.kind]
    ELSE awaited

\* this.executor.test(pkg) of batch b resolves; executeBatch goes on to its
\* next await or returns, and then the .then callback of executeBatches runs
PBTestFinish(b, o) ==
    /\ pbPromise[b] = "pending"
    /\ LET pkg == pbBatches[b][pbPos[b]]
           result == ExecuteResult(pkg, o)
           local == IF result.ok THEN Append(pbLocal[b], result.data)
                    ELSE Append(pbLocal[b], FailedEntry(pkg))
       IN
         IF ~result.ok /\ pbConfig.failFast THEN
              \* executeBatch returns failure; the callback pushes and throws
              /\ pbErrors' = Append(pbErrors, result.error)
              /\ pbPromise' = [pbPromise EXCEPT ![b] = "rejected"]
              /\ pbAwaited' = Settle(pbAwaited, b, pbPromise')
              /\ pbFirstError' = IF pbFirstError = 0 THEN pkg ELSE pbFirstError
              /\ UNCHANGED <<pbPos, pbLocal, pbResults, pbExecuting>>
         ELSE IF pbPos[b] < Len(pbBatches[b]) THEN
              \* the next package of the batch is tested
              /\ pbLocal' = [pbLocal EXCEPT ![b] = local]
              /\ pbPos' = [pbPos EXCEPT ![b] = pbPos[b] + 1]
              /\ pbFirstError' = IF pbFirstError = 0 /\ ~result.ok THEN pkg ELSE pbFirstError
              /\ UNCHANGED <<pbErrors, pbPromise, pbAwaited, pbResults, pbExecuting>>
         ELSE
              \* executeBatch returns success; the callback pushes and splices
              /\ pbLocal' = [pbLocal EXCEPT ![b] = local]
              /\ pbResults' = pbResults \o local
              /\ pbExecuting' = Without(pbExecuting, b)
              /\ pbPromise' = [pbPromise EXCEPT ![b] = "fulfilled"]
              /\ pbAwaited' = Settle(pbAwaited, b, pbPromise')
              /\ pbFirstError' = IF pbFirstError = 0 /\ ~result.ok THEN pkg ELSE pbFirstError
              /\ UNCHANGED <<pbErrors, pbPos>>
    /\ UNCHANGED <<pbConfig, pbPackages, pbBatches, pbPc, pbNext, pbRet, pbLateStart, notPB>>

\* executeBatches: `await Promise.all(executing)` is resumed, in the try block
PBAllResume ==
    /\ pbPc = "all"
    /\ pbAwaited.st # "pending"
    /\ pbAwaited' = NotAwaiting
    /\ pbRet' =
         IF pbAwaited.st = "rejected" /\ pbConfig.failFast
           THEN Returned(Failure(pbAwaited.error))
         ELSE IF Len(pbErrors) > 0 /\ Len(pbResults) = 0
           THEN Returned(Failure(pbErrors[1]))
         ELSE Returned(Success(pbResults))
    /\ pbPc' = "done"
    /\ UNCHANGED <<pbConfig, pbPackages, pbBatches, pbNext, pbExecuting, pbPromise, pbPos,
                   pbLocal, pbResults, pbErrors, pbFirstError, pbLateStart, notPB>>

PBNext ==
    \/ PBCall
    \/ PBRaceResume
    \/ \E b \in 1..Len(pbBatches), o \in ExecOutcomes : PBTestFinish(b, o)
    \/ PBAllResume

-----------------------------------------------------------------------------
(* DenoProcessExecutor.execute: spawn, an optional kill timer, output *)

MaxTimeout == 3
MaxElapsed == 4

\* Deno.CommandOutput.signal is `Deno.Signal | null`
DenoNull == "<null>"

CommandOutput(code, signal) == [code |-> code, signal |-> signal]

\* What process.output() can resolve to when the process ends by itself or is
\* ended from outside: any exit code without a signal, or death by a signal
NaturalOutputs ==
    {CommandOutput(c, DenoNull) : c \in ExitCodes}
      \cup {CommandOutput(137, "SIGKILL"), CommandOutput(143, "SIGTERM")}

\* What process.output() can resolve to after process.kill() (SIGTERM) reached
\* the live process: the signal is recorded, or no signal is recorded and the
\* process reports a non-zero exit code of its own
KilledOutputs ==
    {CommandOutput(143, "SIGTERM")}
      \cup {CommandOutput(c, DenoNull) : c \in ExitCodes \ {0}}

\* `output.signal || undefined`
SignalOrUndefined(signal) == IF signal = DenoNull THEN NoSignal ELSE signal

\* The value returned at `return success({...})`
AdapterResult(output) ==
    [ok |-> TRUE,
     data |-> ProcessResult(output.code,
                            SignalOrUndefined(output.signal),
                            output.signal \in {"SIGTERM", "SIGKILL"})]

AXInit ==
    /\ axTimeout \in 0..MaxTimeout
    /\ axPc = "start"
    /\ axElapsed = 0
    /\ axTimedOut = FALSE
    /\ axResult = Null

\* new Deno.Command(...).spawn(): the process runs, or spawn throws and the
\* catch block returns failure(error)
AXSpawn(spawned) ==
    /\ axPc = "start"
    /\ IF spawned
         THEN axPc' = "running" /\ axResult' = axResult
         ELSE axPc' = "returned" /\ axResult' = [ok |-> FALSE]
    /\ UNCHANGED <<axTimeout, axElapsed, axTimedOut, notAX>>

\* Time passes while `await process.output()` is pending; the timer, if one
\* was set, fires no later than its delay
AXTick ==
    /\ axPc = "running"
    /\ axElapsed < MaxElapsed
    /\ axTimeout # 0 => axElapsed < axTimeout
    /\ axElapsed' = axElapsed + 1
    /\ UNCHANGED <<axTimeout, axPc, axTimedOut, axResult, notAX>>

\* The setTimeout callback: process.kill() on the live process.  No timer is
\* set when options.timeout is 0 (`if (options?.timeout)`)
AXTimer ==
    /\ axPc = "running"
    /\ axTimeout # 0
    /\ axElapsed >= axTimeout
    /\ axPc' = "killed"
    /\ axTimedOut' = TRUE
    /\ UNCHANGED <<axTimeout, axElapsed, axResult, notAX>>

\* process.output() resolves before the timer fired
AXExit(output) ==
    /\ axPc = "running"
    /\ axPc' = "returned"
    /\ axResult' = AdapterResult(output)
    /\ UNCHANGED <<axTimeout, axElapsed, axTimedOut, notAX>>

\* process.output() resolves after the timer killed the process
AXKilledExit(output) ==
    /\ axPc = "killed"
    /\ axPc' = "returned"
    /\ axResult' = AdapterResult(output)
    /\ UNCHANGED <<axTimeout, axElapsed, axTimedOut, notAX>>

AXNext ==
    \/ \E spawned \in BOOLEAN : AXSpawn(spawned)
    \/ AXTick
    \/ AXTimer
    \/ \E output \in NaturalOutputs : AXExit(output)
    \/ \E output \in KilledOutputs : AXKilledExit(output)

-----------------------------------------------------------------------------
(* ApplicationStateManager *)

MaxAppCalls == 4

\* ApplicationState, a discriminated union
AppInitializing(startTime) == [type |-> "initializing", startTime |-> startTime]
AppRunning(cfg, startTime) == [type |-> "running", config |-> cfg, startTime |-> startTime]
AppShuttingDown(reason, exitCode) ==
    [type |-> "shutting-down", reason |-> reason, exitCode |-> exitCode]
AppTerminated(exitCode, duration) ==
    [type |-> "terminated", exitCode |-> exitCode, duration |-> duration]

ValidTransitions ==
    [t \in {"initializing", "running", "shutting-down", "terminated"} |->
        CASE t = "initializing" -> {"running", "terminated"}
          [] t = "running" -> {"shutting-down", "terminated"}
          [] t = "shutting-down" -> {"terminated"}
          [] t = "terminated" -> {}]

IsValidStateTransition(from, to) == to \in ValidTransitions[from]

AppExitCodes == {0, 1}
ShutdownReasons == {"requested"}
FatalReason == "Fatal error"
Severities == {"fatal", "recoverable"}

\* How a call that awaits eventBus.emit after its work ends
AfterEmit(op, value) ==
    IF amBus = "throws" THEN [op |-> op, result |-> "thrown"]
    ELSE [op |-> op, result |-> value]

\* constructor, then an optional setEventBus
AMInit ==
    /\ amState = AppInitializing(now)
    /\ amBus \in {"none", "ok", "throws"}
    /\ amRet = [op |-> "none"]
    /\ amPending = 0
    /\ amCalls = 0

AMCall ==
    /\ amCalls < MaxAppCalls
    /\ amCalls' = amCalls + 1

AMInitialize ==
    /\ AMCall
    /\ IF amState.type # "initializing"
         THEN /\ amRet' = [op |-> "initialize", result |-> "failure"]
              /\ amState' = amState
         ELSE /\ amState' = AppRunning("config", amState.startTime)
              /\ amRet' = AfterEmit("initialize", "success")
    /\ UNCHANGED <<amBus, amPending, now, notAM>>

\* The body of startShutdown: the new state and how the call ends
ShutdownState(reason, exitCode) ==
    IF IsValidStateTransition(amState.type, "shutting-down")
      THEN AppShuttingDown(reason, exitCode)
      ELSE amState

ShutdownResult(op) ==
    IF IsValidStateTransition(amState.type, "shutting-down")
      THEN AfterEmit(op, "success")
      ELSE [op |-> op, result |-> "failure"]

AMStartShutdown(reason, exitCode) ==
    /\ AMCall
    /\ amState' = ShutdownState(reason, exitCode)
    /\ amRet' = ShutdownResult("startShutdown")
    /\ UNCHANGED <<amBus, amPending, now, notAM>>

AMTerminate(exitCode) ==
    /\ AMCall
    /\ IF ~IsValidStateTransition(amState.type, "terminated")
         THEN /\ amRet' = [op |-> "terminate", result |-> "failure"]
              /\ amState' = amState
         ELSE /\ amState' =
                   AppTerminated(exitCode,
                              now - (IF amState.type \in {"initializing", "running"}
                                       THEN amState.startTime ELSE 0))
              /\ amRet' = [op |-> "terminate", result |-> "success"]
    /\ UNCHANGED <<amBus, amPending, now, notAM>>

\* handleError up to its first await.  Without an event bus the whole call
\* runs at once; the Result of the inner startShutdown is dropped and the
\* call returns nothing
AMHandleError(severity) ==
    /\ AMCall
    /\ IF amBus = "throws"
         THEN /\ amRet' = [op |-> "handleError", severity |-> severity, result |-> "thrown"]
              /\ UNCHANGED <<amState, amPending>>
         ELSE IF amBus = "ok" /\ severity = "fatal"
           THEN /\ amRet' = [op |-> "handleError", severity |-> severity, result |-> "pending"]
                /\ amPending' = amPending + 1
                /\ amState' = amState
         ELSE /\ amRet' = [op |-> "handleError", severity |-> severity, result |-> "void"]
              /\ amState' = IF severity = "fatal"
                              THEN ShutdownState(FatalReason, 1) ELSE amState
              /\ amPending' = amPending
    /\ UNCHANGED <<amBus, now, notAM>>

\* handleError('fatal') continues after `await this.eventBus.emit(...)`
AMHandleErrorResume ==
    /\ amPending > 0
    /\ amPending' = amPending - 1
    /\ amState' = ShutdownState(FatalReason, 1)
    /\ amRet' = [op |-> "handleError", severity |-> "fatal", result |-> "void"]
    /\ UNCHANGED <<amBus, amCalls, now, notAM>>

\* Date.now() advances
AMTick ==
    /\ now < MaxClock
    /\ now' = now + 1
    /\ UNCHANGED <<amVars, notAM>>

AMNext ==
    \/ AMInitialize
    \/ \E reason \in ShutdownReasons, exitCode \in AppExitCodes :
          AMStartShutdown(reason, exitCode)
    \/ \E exitCode \in AppExitCodes : AMTerminate(exitCode)
    \/ \E severity \in Severities : AMHandleError(severity)
    \/ AMHandleErrorResume
    \/ AMTick

-----------------------------------------------------------------------------
(* GoCI.executeAll and GoCI.executeBatch: one stage over its packages *)

MaxGoPackages == 3
MaxGoBatchSize == 2

\* What one call of the executor does: it resolves with success true or
\* false (`result.ok && result.data.success`), or it throws
GoOutcomes == {"ok", "fail", "throw"}

GoSuccess(outcome) == outcome = "ok"

GoConfigs ==
    [mode : {"all", "batch"},
     batchSize : 1..MaxGoBatchSize,
     enableFallback : BOOLEAN,
     stopOnFirstError : BOOLEAN]

\* The packages of the stage, in order
GoPackages == [p \in 1..gcN |-> p]

\* packages.slice(i, i + this.config.batchSize)
GoBatch(i) == Slice(i, gcConfig.batchSize, gcN)

GoExecution(mode, packages, outcome) ==
    [mode |-> mode, packages |-> packages, outcome |-> outcome]

\* An ExecutionResult
GoResult(success, packages) ==
    [success |-> success, packages |-> IF success THEN <<>> ELSE packages]

FallsBack_Always(success) == ~success

\* `this.config.enableFallback && !success`, and `this.config.enableFallback`
\* in the catch blocks, where the execution has failed
FallsBack(success) == gcConfig.enableFallback /\ ~success

GCInit ==
    /\ gcConfig \in GoConfigs
    /\ gcN \in 1..MaxGoPackages
    /\ gcPc = gcConfig.mode
    /\ gcI = 0
    /\ gcJ = 0
    /\ gcLog = <<>>
    /\ gcResults = <<>>

\* executeAll: one execution of all packages, then fallback to executeBatch,
\* the result, or the exception thrown again
GCAll(outcome) ==
    /\ gcPc = "all"
    /\ gcLog' = Append(gcLog, GoExecution("all", GoPackages, outcome))
    /\ IF FallsBack(GoSuccess(outcome))
         THEN gcPc' = "batch" /\ gcResults' = <<>>
         ELSE IF outcome = "throw"
           THEN gcPc' = "thrown" /\ gcResults' = gcResults
         ELSE /\ gcPc' = "done"
              /\ gcResults' = <<GoResult(GoSuccess(outcome), GoPackages)>>
    /\ UNCHANGED <<gcConfig, gcN, gcI, gcJ, notGC>>

\* executeBatch: one turn of the loop up to the execution of the batch; with
\* fallback the packages of a failed batch are run one by one next
GCBatch(outcome) ==
    /\ gcPc = "batch"
    /\ gcI < gcN
    /\ gcLog' = Append(gcLog, GoExecution("batch", GoBatch(gcI), outcome))
    /\ IF FallsBack(GoSuccess(outcome))
         THEN /\ gcPc' = "single"
              /\ gcJ' = 1
              /\ UNCHANGED <<gcI, gcResults>>
         ELSE /\ gcResults' = Append(gcResults, GoResult(GoSuccess(outcome), GoBatch(gcI)))
              /\ gcJ' = gcJ
              /\ IF gcConfig.stopOnFirstError /\ ~GoSuccess(outcome)
                   THEN gcPc' = "done" /\ gcI' = gcI
                   ELSE gcPc' = "batch" /\ gcI' = gcI + gcConfig.batchSize
    /\ UNCHANGED <<gcConfig, gcN, notGC>>

\* `for (const pkg of batch)`: one package of the failed batch on its own;
\* after the last one the loop breaks or goes on with the next batch
GCSingle(outcome) ==
    /\ gcPc = "single"
    /\ gcLog' = Append(gcLog, GoExecution("single", <<GoBatch(gcI)[gcJ]>>, outcome))
    /\ gcResults' = Append(gcResults, GoResult(GoSuccess(outcome), <<GoBatch(gcI)[gcJ]>>))
    /\ IF gcJ < Len(GoBatch(gcI))
         THEN gcJ' = gcJ + 1 /\ UNCHANGED <<gcPc, gcI>>
         ELSE /\ gcJ' = 0
              /\ IF gcConfig.stopOnFirstError
                   THEN gcPc' = "done" /\ gcI' = gcI
                   ELSE gcPc' = "batch" /\ gcI' = gcI + gcConfig.batchSize
    /\ UNCHANGED <<gcConfig, gcN, notGC>>

\* The loop of executeBatch ends: return results
GCReturn ==
    /\ gcPc = "batch"
    /\ gcI >= gcN
    /\ gcPc' = "done"
    /\ UNCHANGED <<gcConfig, gcN, gcI, gcJ, gcLog, gcResults, notGC>>

GCNext ==
    \/ \E outcome \in GoOutcomes : GCAll(outcome)
    \/ \E outcome \in GoOutcomes : GCBatch(outcome)
    \/ \E outcome \in GoOutcomes : GCSingle(outcome)
    \/ GCReturn

-----------------------------------------------------------------------------
(* An orchestration session: rounds, decisions and the Fallback Coordinator *)
(* (config and state are the session's own FallbackExecutor)               *)

RoundModulus == 2

\* What a round can report: the process outcome and how many of the
\* MaxTargets targets failed; exit code 0 exactly when no target failed
SessionRounds ==
    { [outcome |-> o, failed |-> f] :
        o \in PurityOutcomes \cup {ProcessResult(0, NoSignal, FALSE)},
        f \in 0..MaxTargets }

ConsistentRound(r) == (r.outcome.exitCode = 0) <=> (r.failed = 0)

RoundContext(r) ==
    ErrorContext(state.currentStrategy, MaxTargets, r.failed, MaxTargets, 0, <<>>)

\* classify, then decide
RoundDecision(r) == MakeDecision(ClassifyExitCode(r.outcome), RoundContext(r), config)

AllTargetsSucceeded(r) == r.failed = 0

\* The session starts Running under its initial strategy, with a Fallback
\* Coordinator initialized for that strategy
SSInit ==
    /\ config \in [enabled : BOOLEAN, maxRetries : 0..MaxRetriesBound]
    /\ now = 0
    /\ state \in { InitialState(s) : s \in DEStrategies }
    /\ eventBus = FALSE
    /\ handler = "none"
    /\ emitted = <<>>
    /\ feRet = [op |-> "none"]
    /\ grants = 0
    /\ feCalls = 0
    /\ ssPhase = "running"
    /\ ssDecision = Null
    /\ ssRound = 0

\* Running: one round is executed, classified and decided
SSRound(r) ==
    /\ ssPhase = "running"
    /\ ConsistentRound(r)
    /\ ssRound' = (ssRound + 1) % RoundModulus
    /\ IF AllTargetsSucceeded(r)
         THEN ssPhase' = "completed" /\ ssDecision' = Null
         ELSE /\ ssDecision' = RoundDecision(r)
              /\ ssPhase' = CASE RoundDecision(r).action = "continue" -> "running"
                              [] RoundDecision(r).action = "fallback" -> "degrading"
                              [] RoundDecision(r).action = "stop" -> "stopped"
    /\ UNCHANGED <<config, state, notSS>>

\* Degrading: the Fallback Coordinator grants (back to Running under the new
\* strategy) or denies (Stopped)
SSDegrade ==
    /\ ssPhase = "degrading"
    /\ IF RetriesExceeded(state)
         THEN ssPhase' = "stopped" /\ state' = state
         ELSE /\ ssPhase' = "running"
              /\ state' = GrantedState(state, ssDecision.trigger, ssDecision.newStrategy)
    /\ UNCHANGED <<config, ssDecision, ssRound, notSS>>

SSNext ==
    \/ \E r \in SessionRounds : SSRound(r)
    \/ SSDegrade

-----------------------------------------------------------------------------
(* Specifications *)

AXIdle ==
    /\ axTimeout = 0
    /\ axPc = "idle"
    /\ axElapsed = 0
    /\ axTimedOut = FALSE
    /\ axResult = Null

AMIdle ==
    /\ amState = Null
    /\ amBus = "none"
    /\ amRet = [op |-> "none"]
    /\ amPending = 0
    /\ amCalls = 0

GCIdle ==
    /\ gcConfig = Null
    /\ gcN = 0
    /\ gcPc = "idle"
    /\ gcI = 0
    /\ gcJ = 0
    /\ gcLog = <<>>
    /\ gcResults = <<>>

SSIdle ==
    /\ ssPhase = "idle"
    /\ ssDecision = Null
    /\ ssRound = 0

RestIdle == AXIdle /\ AMIdle /\ GCIdle /\ SSIdle
CoreIdle == FEIdle /\ DEIdle /\ LAIdle /\ SIIdle /\ TEIdle /\ PBIdle

InitFallback == FEInit /\ DEIdle /\ LAIdle /\ SIIdle /\ TEIdle /\ PBIdle /\ RestIdle
SpecFallback == InitFallback /\ [][FENext]_vars

InitDecide == FEIdle /\ DEInit /\ LAIdle /\ SIIdle /\ TEIdle /\ PBIdle /\ RestIdle
SpecDecide == InitDecide /\ [][DENext]_vars

InitPurity == FEIdle /\ PurityInit /\ LAIdle /\ SIIdle /\ TEIdle /\ PBIdle /\ RestIdle
SpecPurity == InitPurity /\ [][PurityNext]_vars

InitLadder == FEIdle /\ DEIdle /\ LAInit /\ SIIdle /\ TEIdle /\ PBIdle /\ RestIdle
SpecLadder == InitLadder /\ [][LANext]_vars

InitSelect == FEIdle /\ DEIdle /\ LAIdle /\ SIInit /\ TEIdle /\ PBIdle /\ RestIdle
SpecSelect == InitSelect /\ [][SINext]_vars

InitExecutor == FEIdle /\ DEIdle /\ LAIdle /\ SIIdle /\ TEInit /\ PBIdle /\ RestIdle
SpecExecutor == InitExecutor /\ [][TENext]_vars

\* Every this.execute that was started resolves, and the loop goes on when it can
SpecExecutorFair == SpecExecutor /\ WF_vars(TENext)

InitBatches == FEIdle /\ DEIdle /\ LAIdle /\ SIIdle /\ TEIdle /\ PBInit /\ RestIdle
SpecBatches == InitBatches /\ [][PBNext]_vars

InitAdapter == CoreIdle /\ AXInit /\ AMIdle /\ GCIdle /\ SSIdle
SpecAdapter == InitAdapter /\ [][AXNext]_vars

InitAppState == CoreIdle /\ AXIdle /\ AMInit /\ GCIdle /\ SSIdle
SpecAppState == InitAppState /\ [][AMNext]_vars

InitPipeline == CoreIdle /\ AXIdle /\ AMIdle /\ GCInit /\ SSIdle
SpecPipeline == InitPipeline /\ [][GCNext]_vars

InitSession ==
    DEIdle /\ LAIdle /\ SIIdle /\ TEIdle /\ PBIdle /\ AXIdle /\ AMIdle /\ GCIdle /\ SSInit
\* Rounds follow one another: the session never pauses while a step is open
SpecSession == InitSession /\ [][SSNext]_vars /\ WF_vars(SSNext)

-----------------------------------------------------------------------------
(* Claims about the FallbackExecutor *)

\* C1: whenever a FallbackState exists, fallbackCount <= maxRetries and the
\* number of recorded triggers equals fallbackCount.
C1_CountBounded ==
    state # Null =>
        /\ state.fallbackCount <= config.maxRetries
        /\ Len(state.triggers) = state.fallbackCount

\* C1 witness: a state exists after granted fallbacks have used every retry
C1_Witness ==
    /\ state # Null
    /\ config.maxRetries = 2
    /\ state.fallbackCount = 2
    /\ feRet.op = "executeFallback"

\* C2: once maxRetries fallbacks were granted since initialize, every further
\* executeFallback returns executed:false (until initialize is called again).
C2_DeniedAfterMaxRetries ==
    [][ ( /\ grants >= config.maxRetries
          /\ feCalls' = feCalls + 1
          /\ feRet'.op = "executeFallback" )
        => ~feRet'.executed ]_vars

\* C2 witness: a request was denied after maxRetries >= 1 grants
C2_Witness ==
    /\ config.maxRetries >= 1
    /\ grants = config.maxRetries
    /\ feRet.op = "executeFallback"
    /\ ~feRet.executed

-----------------------------------------------------------------------------
(* Claims about classifyExitCode and makeDecision *)

\* C3: for every process outcome with exit code 2 (any killed flag, any
\* signal), every context and every fallback configuration, classifying and then
\* deciding yields Stop with exitCode 2, never Fallback or Continue.
C3_BuildErrorStops ==
    (dpc = "decided" /\ dOutcome.exitCode = 2) =>
        /\ dDecision.action = "stop"
        /\ dDecision.exitCode = 2

\* C3 witness: a killed process with exit code 2, fallback enabled, all targets
\* failed under all-at-once: decided, and stopped
C3_Witness ==
    /\ dpc = "decided"
    /\ dOutcome = ProcessResult(2, "SIGKILL", TRUE)
    /\ dConfig.enabled
    /\ dCtx.executionStrategy.type = "all-at-once"
    /\ dCtx.targetsFailed = dCtx.targetsExecuted
    /\ dCtx.targetsExecuted >= 3
    /\ dDecision.action = "stop"

\* C4: classify returns exactly one classification, by first match: success
\* for exit code 0; else test-failure for exit code 1 and not killed; else
\* build-error for 2; else timeout for 124; else killed{code, signal} if killed
\* and a signal is present; else unknown{code}. Exit code 1, killed, no signal
\* is unknown.
C4_ClassifyPrecedence ==
    dpc \in {"classified", "decided"} =>
      LET r == dOutcome
          early == \/ r.exitCode \in {0, 2, 124}
                   \/ (r.exitCode = 1 /\ ~r.killed)
          signalled == r.killed /\ r.signal # NoSignal
      IN
        /\ dClass.type \in {"success", "test-failure", "build-error", "timeout",
                            "killed", "unknown"}
        /\ r.exitCode = 0 => dClass = [type |-> "success", code |-> 0]
        /\ (r.exitCode = 1 /\ ~r.killed) => dClass = [type |-> "test-failure", code |-> 1]
        /\ r.exitCode = 2 => dClass = [type |-> "build-error", code |-> 2]
        /\ r.exitCode = 124 => dClass = [type |-> "timeout", code |-> 124]
        /\ (~early /\ signalled) =>
              dClass = [type |-> "killed", code |-> r.exitCode, signal |-> r.signal]
        /\ (~early /\ ~signalled) => dClass = [type |-> "unknown", code |-> r.exitCode]
        /\ (r.exitCode = 1 /\ r.killed /\ r.signal = NoSignal) =>
              dClass = [type |-> "unknown", code |-> 1]

\* C4 witness: exit code 1, killed, no signal has been classified as unknown
C4_Witness ==
    /\ dpc = "classified"
    /\ dOutcome = ProcessResult(1, NoSignal, TRUE)
    /\ dClass.type = "unknown"

-----------------------------------------------------------------------------
(* Claims about the fallback chain *)

NoRepeats(seq) == \A i, j \in 1..Len(seq) : i # j => seq[i] # seq[j]

\* C10: from all-at-once, determineNextStrategy visits directory-by-directory
\* with maxConcurrency 5, then file-by-file with stopOnFirstError, then yields
\* no further strategy; no strategy is visited twice.
C10_ChainFromAllAtOnce ==
    (Len(laVisited) > 0 /\ laVisited[1].type = "all-at-once") =>
      LET chain == <<laVisited[1], DirectoryByDirectory(5), FileByFile(TRUE)>> IN
        /\ Len(laVisited) <= Len(chain)
        /\ \A i \in 1..Len(laVisited) : laVisited[i] = chain[i]
        /\ laCur # Null => laCur = laVisited[Len(laVisited)]
        /\ laCur = Null => laVisited = chain
        /\ NoRepeats(laVisited)

\* C10 witness: the chain from all-at-once has come to its end
C10_Witness ==
    /\ laCur = Null
    /\ Len(laVisited) = 3
    /\ laVisited[1] = AllAtOnce(FALSE)

-----------------------------------------------------------------------------
(* Claims about the TestExecutor *)

Running == { t \in TargetsOf(teCall) : teStatus[t] = "running" }

\* The group of target t under group size k (targets and groups count from 1)
GroupOf(t, k) == ((t - 1) \div k) + 1

\* C6: executeParallel with N targets and maxConcurrency k >= 1 runs the
\* targets, in input order, as ceil(N/k) consecutive groups of size k (the last
\* possibly smaller); no target of a group starts before every target of the
\* groups before it has finished, so at most k targets run at the same time.
C6_BarrierGroups ==
    (teCall # Null /\ teCall.method = "executeParallel" /\ teCall.maxConcurrency >= 1) =>
      LET k == teCall.maxConcurrency
          n == teCall.n
      IN
        /\ \A g \in 1..Len(teLaunched) :
              /\ Len(teLaunched[g]) = IF g * k <= n THEN k ELSE n - (g - 1) * k
              /\ \A j \in 1..Len(teLaunched[g]) : teLaunched[g][j] = (g - 1) * k + j
        /\ tePc = "done" => Len(teLaunched) * k >= n /\ (Len(teLaunched) - 1) * k < n
        /\ \A t, u \in TargetsOf(teCall) :
              (teStatus[t] # "pending" /\ GroupOf(u, k) < GroupOf(t, k))
                  => teStatus[u] = "finished"
        /\ Cardinality(Running) <= k

\* C6 witness: 5 targets with maxConcurrency 2 were run as groups of 2, 2, 1
C6_Witness ==
    /\ teCall # Null
    /\ teCall.method = "executeParallel"
    /\ teCall.n = 5
    /\ teCall.maxConcurrency = 2
    /\ tePc = "done"
    /\ Len(teLaunched) = 3
    /\ Len(teLaunched[1]) = 2
    /\ Len(teLaunched[2]) = 2
    /\ Len(teLaunched[3]) = 1

ReturnedResults(ret) == IF ret.ok THEN ret.data ELSE <<>>
ReturnedErrors(ret) == IF ret.ok THEN <<>> ELSE ret.error.details.errors

EntriesFor(t, seq) == { j \in 1..Len(seq) : seq[j].target = t }

\* C7: the value executeParallel returns (it never stops early) holds one error
\* entry for every target whose execution failed and one result for every
\* target that succeeded, none dropped.
C7_NothingDropped ==
    (teCall # Null /\ teCall.method = "executeParallel" /\ tePc = "done") =>
      \A t \in TargetsOf(teCall) :
        /\ teOutcome[t] = "spawn-failed" =>
              Cardinality(EntriesFor(t, ReturnedErrors(teRet))) = 1
        /\ teOutcome[t] = "passed" =>
              Cardinality(EntriesFor(t, ReturnedResults(teRet))) = 1

FirstFailed == CHOOSE f \in TargetsOf(teCall) :
                  /\ teOutcome[f] = "failed"
                  /\ \A u \in 1..(f - 1) : teOutcome[u] # "failed"

\* C9: executeSequence runs the targets one at a time in input order; with
\* stopOnFailure no target after the first failed one is executed and the call
\* returns exactly the results of the targets up to and including that one, in
\* input order.
C9_SequenceStops ==
    (teCall # Null /\ teCall.method = "executeSequence") =>
        /\ Cardinality(Running) <= 1
        /\ \A g \in 1..Len(teLaunched) : teLaunched[g] = <<g>>
        /\ \A t, u \in TargetsOf(teCall) :
              (teStatus[t] # "pending" /\ u < t) => teStatus[u] = "finished"
        /\ (teCall.stopOnFailure /\ \E f \in TargetsOf(teCall) : teOutcome[f] = "failed") =>
              /\ \A u \in TargetsOf(teCall) : u > FirstFailed => teStatus[u] = "pending"
              /\ tePc = "done"
              /\ teRet = Success([j \in 1..FirstFailed |->
                                    [target |-> j, success |-> (j # FirstFailed)]])

\* C9 witness: with stopOnFailure the second of four targets failed
C9_Witness ==
    /\ teCall # Null
    /\ teCall.method = "executeSequence"
    /\ teCall.stopOnFailure
    /\ teCall.n = 4
    /\ teOutcome[1] = "passed"
    /\ teOutcome[2] = "failed"
    /\ tePc = "done"

-----------------------------------------------------------------------------
(* Claims about the ParallelTestExecutor *)

\* C8: with failFast, once the first target execution has failed no batch that
\* has not started yet is started, and executeParallel returns (as a value) a
\* failure carrying that first error.
C8_FailFastAborts ==
    (pbConfig # Null /\ pbConfig.failFast) =>
        /\ ~pbLateStart
        /\ (pbPc = "done" /\ pbFirstError # 0) =>
              pbRet = Returned(Failure(TestError(pbFirstError)))

-----------------------------------------------------------------------------
(* Further claims about the fallback chain *)

\* C11: the chain is strict: the strategy determineNextStrategy returns, when
\* there is one, differs from the strategy it was given, for every strategy
\* (every variant, every batchSize >= 1, either parallel flag); so no strategy
\* follows itself in the chain.
C11_StrictLadder ==
    \A i \in 1..(Len(laVisited) - 1) : laVisited[i + 1] # laVisited[i]

-----------------------------------------------------------------------------
(* Claims about selectInitialStrategy *)

\* The decision table of the initial strategy, evaluated in order
TableVariant(c) ==
    IF c.totalPackages <= 10 \/ c.timeConstraints < 60 THEN "all-at-once"
    ELSE IF c.totalPackages <= 50
            /\ (c.resourceConstraints = Null \/ c.resourceConstraints.maxConcurrency >= 4)
      THEN "batch"
    ELSE IF c.totalPackages > 50 \/ c.hasComplexDependencies THEN "directory-by-directory"
    ELSE "file-by-file"

\* C12: every call of selectInitialStrategy returns the variant the decision
\* table gives for the criteria (AllAtOnce{parallel:false}, Batch{10, parallel:
\* true}, DirectoryByDirectory, FileByFile{stopOnFirstError:true}), and repeated
\* calls with the same criteria return the same strategy.
C12_SelectionTable ==
    \A i \in 1..Len(siResults) :
        /\ siResults[i].type = TableVariant(siCriteria)
        /\ siResults[i].type = "all-at-once" => siResults[i] = AllAtOnce(FALSE)
        /\ siResults[i].type = "batch" => siResults[i] = Batch(10, TRUE)
        /\ siResults[i].type = "file-by-file" => siResults[i] = FileByFile(TRUE)
        /\ siResults[i] = siResults[1]

\* C12 witness: the scenario of 5 packages, no complex dependencies and 300
\* seconds, asked twice
C12_Witness ==
    /\ siCriteria = Criteria(5, FALSE, 300, Null)
    /\ siResults = <<AllAtOnce(FALSE), AllAtOnce(FALSE)>>

\* C13: a DirectoryByDirectory strategy returned by selectInitialStrategy has
\* the maxConcurrency of the resource constraints whenever they are supplied,
\* whatever integer it is, and 5 when they are not supplied.
C13_ConcurrencyFromConstraints ==
    \A i \in 1..Len(siResults) :
        siResults[i].type = "directory-by-directory" =>
            siResults[i].maxConcurrency =
                IF siCriteria.resourceConstraints # Null
                  THEN siCriteria.resourceConstraints.maxConcurrency
                  ELSE 5

-----------------------------------------------------------------------------
(* Further claims about makeDecision *)

\* C14: for a timeout classification makeDecision returns a fallback to
\* DirectoryByDirectory{maxConcurrency:3} with a timeout-exceeded trigger exactly
\* when fallback is enabled and the current strategy is all-at-once; in every
\* other case it returns stop with exit code 124.
C14_TimeoutRule ==
    (dpc = "decided" /\ dClass.type = "timeout") =>
        IF dConfig.enabled /\ dCtxBefore.executionStrategy.type = "all-at-once"
          THEN /\ dDecision.action = "fallback"
               /\ dDecision.newStrategy = DirectoryByDirectory(3)
               /\ dDecision.trigger.type = "timeout-exceeded"
          ELSE /\ dDecision.action = "stop"
               /\ dDecision.exitCode = 124

\* C14 witness: a timeout under all-at-once with fallback enabled
C14_Witness ==
    /\ dpc = "decided"
    /\ dClass.type = "timeout"
    /\ dConfig.enabled
    /\ dCtxBefore.executionStrategy = AllAtOnce(FALSE)
    /\ dDecision.action = "fallback"

\* The context of the all-failed rule: all-at-once, and every executed target
\* failed (at least one was executed)
AllFailedContext(c) ==
    /\ c.executionStrategy.type = "all-at-once"
    /\ c.targetsExecuted > 0
    /\ c.targetsFailed = c.targetsExecuted

\* C15 as stated: for a test failure in such a context makeDecision returns a
\* fallback to DirectoryByDirectory{maxConcurrency:5} with trigger
\* all-tests-failed{totalTargets}, whatever the fallback configuration is.
C15_AllFailedFallsBack ==
    (dpc = "decided" /\ dClass.type = "test-failure" /\ AllFailedContext(dCtxBefore)) =>
        dDecision = Fallback(DirectoryByDirectory(5), AllTestsFailed(dCtxBefore.totalTargets))

\* C15 amended: the fallback is returned when the configuration enables
\* fallback; with fallback disabled the decision is continue.
C15_AllFailedFallsBackIfEnabled ==
    (dpc = "decided" /\ dClass.type = "test-failure" /\ AllFailedContext(dCtxBefore)) =>
        IF dConfig.enabled
          THEN dDecision = Fallback(DirectoryByDirectory(5),
                                    AllTestsFailed(dCtxBefore.totalTargets))
          ELSE dDecision.action = "continue"

\* C15 witness: 4 of 4 targets failed under all-at-once, fallback enabled
C15_Witness ==
    /\ dpc = "decided"
    /\ dClass.type = "test-failure"
    /\ dConfig.enabled
    /\ dCtxBefore.executionStrategy = AllAtOnce(FALSE)
    /\ dCtxBefore.targetsExecuted = 4
    /\ dCtxBefore.targetsFailed = 4
    /\ dCtxBefore.totalTargets = 4
    /\ dDecision.action = "fallback"

\* More than half of the executed targets failed
MoreThanHalfFailed(c) == 2 * c.targetsFailed > c.targetsExecuted

\* What C16 gives for a test failure outside the all-failed rule, the rule of
\* the error threshold being open (TRUE) or not
ThresholdRule(c, open) ==
    IF /\ open
       /\ MoreThanHalfFailed(c)
       /\ c.targetsExecuted >= 3
       /\ DetermineNextStrategy(c.executionStrategy) # Null
      THEN Fallback(DetermineNextStrategy(c.executionStrategy),
                    ErrorThresholdExceeded(Ratio(c.targetsFailed, c.targetsExecuted), Half))
    ELSE IF c.executionStrategy.type = "file-by-file" /\ c.executionStrategy.stopOnFirstError
      THEN Stop(<<"First error detected in file-by-file mode">>, 1)
    ELSE Continue(<<"Test failure detected, continuing execution">>)

\* C16 as stated: for a test failure to which the all-failed rule does not
\* apply, makeDecision returns a fallback to the next step of the chain with
\* trigger error-threshold-exceeded{errorRate, 0.5} if more than half of the
\* executed targets failed, at least 3 were executed and there is a next step;
\* otherwise stop with exit code 1 for file-by-file with stopOnFirstError, and
\* continue in every remaining case.
C16_ThresholdRule ==
    (dpc = "decided" /\ dClass.type = "test-failure" /\ ~AllFailedContext(dCtxBefore)) =>
        dDecision = ThresholdRule(dCtxBefore, TRUE)

\* C16 amended: the fallback of the threshold rule is returned only when the
\* configuration enables fallback; with fallback disabled (where the all-failed
\* rule does not apply either) the decision is stop or continue as stated.
C16_ThresholdRuleIfEnabled ==
    (/\ dpc = "decided"
     /\ dClass.type = "test-failure"
     /\ ~(dConfig.enabled /\ AllFailedContext(dCtxBefore))) =>
        dDecision = ThresholdRule(dCtxBefore, dConfig.enabled)

\* C16 witness: 3 of 4 targets failed under directory-by-directory, fallback
\* enabled: a fallback to file-by-file
C16_Witness ==
    /\ dpc = "decided"
    /\ dClass.type = "test-failure"
    /\ dConfig.enabled
    /\ dCtxBefore.executionStrategy = DirectoryByDirectory(5)
    /\ dCtxBefore.targetsExecuted = 4
    /\ dCtxBefore.targetsFailed = 3
    /\ dDecision = Fallback(FileByFile(TRUE), ErrorThresholdExceeded(Ratio(3, 4), Half))

-----------------------------------------------------------------------------
(* Further claims about the FallbackExecutor *)

\* A step that is a call of executeFallback
ExecuteFallbackStep == feCalls' = feCalls + 1 /\ feRet'.op = "executeFallback"

\* C17: an executeFallback call that returns executed:false leaves the state
\* (originalStrategy, currentStrategy, fallbackCount, triggers, startTime) as it
\* was and hands no event to the event bus.
C17_DeniedChangesNothing ==
    [][ (ExecuteFallbackStep /\ "executed" \in DOMAIN feRet' /\ ~feRet'.executed)
        => (state' = state /\ emitted' = emitted) ]_vars

\* C17 witness: a request was denied on an executor with an event bus that had
\* granted its one retry: one trigger, one event
C17_Witness ==
    /\ eventBus
    /\ config.maxRetries = 1
    /\ state # Null
    /\ state.fallbackCount = 1
    /\ Len(state.triggers) = 1
    /\ Len(emitted) = 1
    /\ feRet.op = "executeFallback"
    /\ "executed" \in DOMAIN feRet
    /\ ~feRet.executed

\* C18: an executeFallback(trigger, newStrategy) call made while fallbackCount <
\* maxRetries returns executed:true with newStrategy, adds 1 to fallbackCount,
\* appends trigger to triggers, sets currentStrategy to newStrategy, keeps
\* originalStrategy, and hands the event bus exactly one event, from the
\* previous currentStrategy to newStrategy.
C18_GrantedBelowMaxRetries ==
    [][ (ExecuteFallbackStep /\ state # Null /\ state.fallbackCount < config.maxRetries)
        => \E t \in FETriggers, s \in FEStrategies :
              /\ feRet' = [op |-> "executeFallback", executed |-> TRUE,
                           newStrategy |-> s, reason |-> GetTriggerReason(t)]
              /\ state' = [ originalStrategy |-> state.originalStrategy,
                            currentStrategy  |-> s,
                            fallbackCount    |-> state.fallbackCount + 1,
                            triggers         |-> Append(state.triggers, t),
                            startTime        |-> state.startTime ]
              /\ eventBus =>
                    emitted' = Append(emitted,
                                 FallbackEvent(StrategyToString(state.currentStrategy),
                                               StrategyToString(s))) ]_vars

\* C19: on an initialized executor canFallback returns true exactly when
\* config.enabled holds and fallbackCount < maxRetries, and the call changes
\* neither the state nor the configuration and emits nothing.
C19_CanFallbackExact ==
    [][ (feCalls' = feCalls + 1 /\ feRet'.op = "canFallback")
        => /\ state' = state /\ config' = config /\ emitted' = emitted
           /\ state # Null =>
                 (feRet'.value <=> (config.enabled /\ state.fallbackCount < config.maxRetries))
      ]_vars

\* C19 witness: canFallback answered true after one of two retries was used
C19_Witness ==
    /\ state # Null
    /\ config.enabled
    /\ config.maxRetries = 2
    /\ state.fallbackCount = 1
    /\ feRet = [op |-> "canFallback", value |-> TRUE]

\* C20: every executeFallback call completes with a result whose executed field
\* is true or false: before initialize, after reset, after the retries are
\* used up, and with an event bus whose handler fails.
C20_NeverRaises ==
    feRet.op = "executeFallback" =>
        ("executed" \in DOMAIN feRet /\ feRet.executed \in BOOLEAN)

\* C21: no history passes from one session to the next: after reset the
\* fallback history is empty, and after initialize(s), called in any state,
\* fallbackCount is 0, triggers is empty and currentStrategy and
\* originalStrategy are s, so that the retries are available again.
C21_NoHistoryLeak ==
    [][ feCalls' = feCalls + 1 =>
          /\ feRet'.op = "reset" => FallbackHistoryValue' = <<>>
          /\ feRet'.op = "getFallbackHistory" =>
                feRet'.value = (IF state = Null THEN <<>> ELSE state.triggers)
          /\ feRet'.op = "initialize" =>
                /\ \E s \in FEStrategies :
                      state' = [ originalStrategy |-> s, currentStrategy |-> s,
                                 fallbackCount |-> 0, triggers |-> <<>>,
                                 startTime |-> now ]
                /\ FallbackHistoryValue' = <<>>
                /\ CanFallbackValue' = (config.enabled /\ config.maxRetries > 0)
      ]_vars

\* C21 witness: with one retry allowed, a second session was granted its retry
\* after the first session had used its own; the history holds one trigger
C21_Witness ==
    /\ config.maxRetries = 1
    /\ eventBus
    /\ Len(emitted) = 2
    /\ state # Null
    /\ state.fallbackCount = 1
    /\ Len(state.triggers) = 1
    /\ feRet.op = "executeFallback"
    /\ "executed" \in DOMAIN feRet
    /\ feRet.executed

\* C27: whenever executeFallback returns executed:true, canFallback() called
\* right before it would have returned true, whatever the configuration.
C27_GrantsOnlyWhatCanFallbackAnnounces ==
    [][ (ExecuteFallbackStep /\ "executed" \in DOMAIN feRet' /\ feRet'.executed)
        => CanFallbackValue ]_vars

-----------------------------------------------------------------------------
(* Claims about makeDecision for every classification *)

\* C28: with enabled = false in the fallback configuration makeDecision never
\* returns a fallback, for every classification and every context: it returns
\* continue or stop.
C28_DisabledNeverFallsBack ==
    (dpc = "decided" /\ ~dConfig.enabled) => dDecision.action \in {"continue", "stop"}

\* C28 witness: fallback disabled, every target failed under all-at-once
C28_Witness ==
    /\ dpc = "decided"
    /\ ~dConfig.enabled
    /\ dClass.type = "test-failure"
    /\ AllFailedContext(dCtxBefore)
    /\ dDecision.action = "continue"

\* C29: for every process outcome, every context (targetsExecuted = 0
\* included) and every configuration, makeDecision applied to the
\* classification of the outcome returns a decision; a stop carries an exit
\* code that is not 0 and is the exit code of the process; killed and unknown
\* outcomes always give stop.
C29_StopCarriesExitCode ==
    dpc = "decided" =>
        /\ dDecision.action \in {"continue", "stop", "fallback"}
        /\ dDecision.action = "stop" =>
              (dDecision.exitCode # 0 /\ dDecision.exitCode = dOutcome.exitCode)
        /\ dClass.type \in {"killed", "unknown"} => dDecision.action = "stop"

\* C29 witness: a process killed by SIGKILL with exit code 137, no target
\* executed yet
C29_Witness ==
    /\ dpc = "decided"
    /\ dOutcome = ProcessResult(137, "SIGKILL", TRUE)
    /\ dCtxBefore.targetsExecuted = 0
    /\ dClass.type = "killed"
    /\ dDecision.action = "stop"
    /\ dDecision.exitCode = 137

-----------------------------------------------------------------------------
(* Claims about how often and how long the executors run *)

\* The places where target t was handed to this.execute
LaunchesOf(t) ==
    { p \in (1..Len(teLaunched)) \X (1..MaxRunTargets + 1) :
        p[2] <= Len(teLaunched[p[1]]) /\ teLaunched[p[1]][p[2]] = t }

\* The places of package i in the batches createBatches made
PlacesOf(i) ==
    { p \in (1..Len(pbBatches)) \X (1..MaxConcurrencyBound + 1) :
        p[2] <= Len(pbBatches[p[1]]) /\ pbBatches[p[1]][p[2]] = i }

\* C23: within one executeSequence or executeParallel call every target is
\* executed at most once, whatever its outcome, and belongs to one group only;
\* the batches createBatches makes hold every package once.
C23_AtMostOnce ==
    /\ teCall # Null =>
          \A t \in TargetsOf(teCall) :
              /\ Cardinality(LaunchesOf(t)) <= 1
              /\ teStatus[t] = "pending" <=> LaunchesOf(t) = {}
    /\ (pbConfig # Null /\ pbPc # "call") =>
          \A i \in 1..Len(pbPackages) : Cardinality(PlacesOf(i)) = 1

\* C23 witness: executeParallel over 5 targets in groups of 2 has returned
\* after targets failed in the first and in the second group
C23_Witness ==
    /\ teCall # Null
    /\ teCall.method = "executeParallel"
    /\ teCall.n = 5
    /\ teCall.maxConcurrency = 2
    /\ teOutcome[1] = "failed"
    /\ teOutcome[3] = "spawn-failed"
    /\ tePc = "done"

\* C30: executeParallel always returns: for every list of targets and every
\* maxConcurrency >= 0, if every execution of a target ends, the call ends
\* with a result.
C30_ParallelReturns ==
    (teCall # Null /\ teCall.method = "executeParallel") ~> (tePc = "done" /\ teRet # Null)

-----------------------------------------------------------------------------
(* Claims about the process adapter *)

\* C24: every outcome of a target whose process was killed because its
\* timeout expired is classified as timeout or killed
C24_TimedOutIsTimeoutOrKilled ==
    (axPc = "returned" /\ axTimedOut)
      => ClassifyExitCode(axResult.data).type \in {"timeout", "killed"}

-----------------------------------------------------------------------------
(* Claims about the ApplicationStateManager *)

AllowedEdges ==
    {<<"initializing", "running">>, <<"initializing", "terminated">>,
     <<"running", "shutting-down">>, <<"running", "terminated">>,
     <<"shutting-down", "terminated">>}

\* The state a call aims at
TargetOf(op) ==
    CASE op = "initialize" -> "running"
      [] op = "startShutdown" -> "shutting-down"
      [] op = "terminate" -> "terminated"
      [] op = "handleError" -> "shutting-down"

\* A call came to its end in this step: a value was returned to the caller
CallEnds ==
    /\ amCalls' # amCalls \/ amPending' < amPending
    /\ amRet'.result \notin {"pending", "thrown"}

\* The call that ends in this step tried to change the state
AimsAtTransition ==
    amRet'.op = "handleError" => amRet'.severity = "fatal"

\* The state changes only along the five edges
AMOnlyAllowedEdges ==
    amState'.type # amState.type => <<amState.type, amState'.type>> \in AllowedEdges

\* A call that would make another transition leaves the state unchanged
AMRefusedUnchanged ==
    (CallEnds /\ AimsAtTransition
       /\ <<amState.type, TargetOf(amRet'.op)>> \notin AllowedEdges)
      => amState' = amState

\* A call that would make another transition returns a failure
AMRefusedWithFailure ==
    (CallEnds /\ AimsAtTransition
       /\ <<amState.type, TargetOf(amRet'.op)>> \notin AllowedEdges)
      => amRet'.result = "failure"

\* C26: the manager starts in initializing, its state only ever changes along
\* the five edges, a call aiming at any other transition returns a failure and
\* leaves the state unchanged, and terminated is never left
C26_OnlyValidTransitions ==
    [][/\ amCalls = 0 => amState.type = "initializing"
       /\ AMOnlyAllowedEdges
       /\ AMRefusedUnchanged
       /\ AMRefusedWithFailure]_vars

-----------------------------------------------------------------------------
(* Claims about the GoCI pipeline *)

\* The positions of the log that hold an execution in the given mode
GoEntries(mode) == { k \in 1..Len(gcLog) : gcLog[k].mode = mode }

\* The k-th execution failed
GoFailed(k) == ~GoSuccess(gcLog[k].outcome)

\* With fallback, a failed all-mode execution is followed by executeBatch over
\* the same packages: the batch-mode executions are, in order, the batches of
\* the whole package list from its first package on, and without
\* stopOnFirstError they cover every package before the stage returns
AllThenBatches ==
    (Len(gcLog) >= 1 /\ gcLog[1].mode = "all" /\ GoFailed(1))
      => /\ gcPc \in {"batch", "single", "done"}
         /\ \A k \in GoEntries("batch") :
               LET nth == Cardinality({ m \in GoEntries("batch") : m <= k })
               IN gcLog[k].packages = GoBatch((nth - 1) * gcConfig.batchSize)
         /\ (gcPc = "done" /\ ~gcConfig.stopOnFirstError)
               => \A p \in 1..gcN : \E k \in GoEntries("batch") :
                     \E m \in 1..Len(gcLog[k].packages) : gcLog[k].packages[m] = p

\* With fallback, a failed batch is followed by one execution of each of its
\* packages alone, in order, before anything else is executed
BatchThenSingles ==
    \A k \in GoEntries("batch") :
        GoFailed(k)
          => /\ \A m \in 1..Len(gcLog[k].packages) :
                   k + m <= Len(gcLog)
                     => /\ gcLog[k + m].mode = "single"
                        /\ gcLog[k + m].packages = <<gcLog[k].packages[m]>>
             /\ k + Len(gcLog[k].packages) > Len(gcLog) => gcPc = "single"

\* No package is executed a second time
GoNoSecondExecution ==
    \A k, l \in 1..Len(gcLog) :
        k # l => \A m \in 1..Len(gcLog[k].packages), q \in 1..Len(gcLog[l].packages) :
                    gcLog[k].packages[m] # gcLog[l].packages[q]

\* C25: with fallback enabled a failed all-mode execution is followed by a
\* batch-mode execution of the same packages and a failed batch by an
\* individual execution of each of its packages; with fallback disabled no
\* package is executed a second time within the stage
C25_FallbackPipeline ==
    IF gcConfig.enableFallback
      THEN AllThenBatches /\ BatchThenSingles
      ELSE GoNoSecondExecution

\* With fallback, three packages in batches of two: the all-mode execution
\* failed, the first batch failed, its two packages ran alone, and the stage
\* has returned
C25_Witness ==
    /\ gcPc = "done"
    /\ gcConfig.enableFallback
    /\ gcN = 3
    /\ Len(gcLog) >= 5
    /\ gcLog[1].mode = "all" /\ GoFailed(1)
    /\ gcLog[2].mode = "batch" /\ GoFailed(2) /\ Len(gcLog[2].packages) = 2
    /\ gcLog[3].mode = "single" /\ gcLog[4].mode = "single"
    /\ gcLog[5].mode = "batch"

-----------------------------------------------------------------------------
(* Claims about the orchestration session *)

SessionOver == ssPhase \in {"stopped", "completed"}

ContinuedRound == ssPhase = "running" /\ ssDecision # Null /\ ssDecision.action = "continue"

====
